---- MODULE Spec2Model ----
(***************************************************************************)
(* The script-matrix application: the client page that drives the chunked  *)
(* extraction (prescan, batches of three chunks with retry, merge), the    *)
(* older sequential page, the server-side chunk loop, and the segmenters.  *)
(***************************************************************************)
EXTENDS Integers, Sequences, FiniteSets, TLC

(***************************************************************************)
(* Bounds of the model.                                                    *)
(***************************************************************************)
\* the largest chunk list handed to performDetailedExtraction and to the
\* chunk loops of the sequential page and of the server
MaxChunks == 4
\* the longest text handed to splitTextIntoChunks
MaxTextLen == 4
\* the largest chunkSize (maxChunkSize) and the largest overlap
MaxChunkSize == 3
MaxOverlap == 2
\* the passes of the page's split loop that are followed
MaxSplitPasses == 6
\* the longest list of results handed to the merge step
MaxResults == 3
\* the longest time of day handed to determineDN
MaxTimeLen == 3
\* the longest content and the largest cap handed to truncateContent
MaxContentLen == 4
MaxCap == 3

(***************************************************************************)
(* Program constants.                                                      *)
(***************************************************************************)
MAX_RETRIES == 3
\* the literal 3 of "for (let i = 0; i < chunks.length; i += 3)"
BATCH_SIZE == 3

Chunks == 0..(MaxChunks - 1)

(***************************************************************************)
(* Strings.  A string is a sequence of characters.                         *)
(***************************************************************************)
\* the characters \s matches and trim() removes, of those the model writes
Whitespace == {"\n", " "}

\* String.prototype.trim()
RECURSIVE TrimStart(_)
TrimStart(s) ==
  IF s # <<>> /\ Head(s) \in Whitespace THEN TrimStart(Tail(s)) ELSE s

RECURSIVE TrimEnd(_)
TrimEnd(s) ==
  IF s # <<>> /\ s[Len(s)] \in Whitespace
  THEN TrimEnd(SubSeq(s, 1, Len(s) - 1)) ELSE s

Trim(s) == TrimEnd(TrimStart(s))

\* the UTF-16 code unit of a character of a name
CodeUnit(ch) ==
  CASE ch = " " -> 32 [] ch = "(" -> 40 [] ch = ")" -> 41
    [] ch = "1" -> 49 [] ch = "2" -> 50 [] ch = "S" -> 83 [] ch = "T" -> 84

\* a < b as Array.prototype.sort() without a comparator orders strings:
\* by code units, a proper prefix first
RECURSIVE StringBefore(_, _)
StringBefore(a, b) ==
  IF b = <<>> THEN FALSE
  ELSE IF a = <<>> THEN TRUE
  ELSE IF Head(a) # Head(b) THEN CodeUnit(Head(a)) < CodeUnit(Head(b))
  ELSE StringBefore(Tail(a), Tail(b))

\* Array.from(set).sort()
RECURSIVE SortStrings(_)
SortStrings(set) ==
  IF set = {} THEN <<>>
  ELSE LET first == CHOOSE a \in set : \A b \in set \ {a} : StringBefore(a, b)
       IN <<first>> \o SortStrings(set \ {first})

OpenParens == {"("}
CloseParens == {")"}
AgeDigits == {"1", "2"}

\* the index of the first character at or after j that \s does not match
RECURSIVE SkipWhitespace(_, _)
SkipWhitespace(s, j) ==
  IF j <= Len(s) /\ s[j] \in Whitespace THEN SkipWhitespace(s, j + 1) ELSE j

\* the index of the first character at or after j that \d does not match
RECURSIVE SkipDigits(_, _)
SkipDigits(s, j) ==
  IF j <= Len(s) /\ s[j] \in AgeDigits THEN SkipDigits(s, j + 1) ELSE j

\* \s*[(\uff08](\d+)[)\uff09] matches from index j
AgeAt(s, j) ==
  LET p == SkipWhitespace(s, j)
      e == SkipDigits(s, p + 1)
  IN /\ p <= Len(s)
     /\ s[p] \in OpenParens
     /\ e > p + 1
     /\ e <= Len(s)
     /\ s[e] \in CloseParens

\* extractCharacterWithAge: the match begins at the first character, and
\* the lazy (.+?) ends at the first index the rest of the pattern matches
\* from; age <<>> stands for no age
extractCharacterWithAge(name) ==
  LET ends == {j \in 2..Len(name) : AgeAt(name, j)}
  IN IF ends = {} THEN [name |-> Trim(name), age |-> <<>>]
     ELSE LET j == CHOOSE k \in ends : \A l \in ends : k <= l
              p == SkipWhitespace(name, j)
          IN [name |-> Trim(SubSeq(name, 1, j - 1)),
              age |-> SubSeq(name, p + 1, SkipDigits(name, p + 1) - 1)]

\* the string mergeCharacters adds for a raw name: `${name}(${age})` when
\* the name carries an age, the name otherwise
CanonicalString(char) ==
  LET parts == extractCharacterWithAge(char)
  IN IF parts.age # <<>>
     THEN parts.name \o <<"(">> \o parts.age \o <<")">>
     ELSE parts.name

\* mergeCharacters of the server
mergeCharacters(existing, newChars) ==
  SortStrings({existing[i] : i \in 1..Len(existing)}
              \cup {CanonicalString(newChars[i]) : i \in 1..Len(newChars)})

\* raw character names as the oracle writes them
Name_T == <<"T">>
Name_T1 == <<"T", "(", "1", ")">>
Name_T2 == <<"T", "(", "2", ")">>
Name_T1Spaced == <<"T", " ", "(", "1", ")">>
Name_S == <<"S">>

(***************************************************************************)
(* Oracle data.  A raw scene record as the extract endpoint returns it:    *)
(* episode 0 stands for an absent episode; a scene_number below 0 stands   *)
(* for a label that is not a number ("A" for -1, "B" for -2); content is   *)
(* the length of the content string and -1 stands for an absent content    *)
(* field; characters is <<>> for an absent list and <<list>> for a list.   *)
(***************************************************************************)
SceneA == [episode |-> 0, scene_number |-> 1, content |-> 1, location |-> "A",
           characters |-> <<<<Name_T>>>>]
SceneB == [episode |-> 1, scene_number |-> 1, content |-> 2, location |-> "B",
           characters |-> <<<<Name_T1, Name_S>>>>]
SceneC == [episode |-> 1, scene_number |-> 2, content |-> 1, location |-> "C",
           characters |-> <<<<Name_S>>>>]

\* The body of a response that passes the is_script test.  shape tells what
\* the scenes field is: a list, or a truthy value that is not iterable (the
\* endpoint forwards the oracle's JSON unvalidated).  characters is <<>>
\* for an absent list and <<list>> for a list.
Payloads ==
  { [shape |-> "list", scenes |-> <<SceneA>>, characters |-> <<<<Name_T>>>>],
    [shape |-> "list", scenes |-> <<SceneB, SceneC>>,
     characters |-> <<<<Name_T1, Name_S>>>>],
    [shape |-> "notIterable", scenes |-> <<>>, characters |-> <<>>] }

\* What one request can come back with: a non-success status, a rejected
\* fetch or an unparsable body, a body whose is_script is falsy, or data.
FailureKinds == {"http_error", "throw", "non_script"}
ResponseKinds == FailureKinds \cup {"data"}

VARIABLES
  \* React state of the page
  processingStep, error, passwordError, matrixData, progress,
  \* the running handleSubmit: its position, its local fullText, and what
  \* its prescan request came back with ("none": not sent, "pending": sent)
  pc, fullText, prescan,
  \* whether the server has called the oracle for a request of the run that
  \* carries text
  oracleCalled,
  \* the characters field of the prescan response (<<>>: none, <<list>>: a
  \* list) and the local "characters" that handleSubmit takes from
  \* performPreScan and hands on as characterHints
  prescanCharacters, characterHints,
  \* locals of performDetailedExtraction
  totalChunks, batchStart, results, completedCount, failedCount,
  \* per chunk: position of its processChunkWithRetry call and its loop
  \* variable attempt (the number of requests issued so far)
  st, attempt,
  \* per chunk: the milliseconds of the last timer its call has set (0: none
  \* yet) and the character_hints of the last request sent for it (<<>>: no
  \* request yet, <<list>>: the list in the body)
  delay, sentHints

VARIABLES
  \* the sequential page: its React state, the position of handleSubmit,
  \* the locals of processTextSequentially (the number of chunks, the loop
  \* index i, allScenes) and what became of each chunk so far
  sIsProcessing, sError, sPasswordError, sMatrixData, sProgress,
  sPc, sTotal, sIndex, sAllScenes, sOutcome

VARIABLES
  \* the server's POST: its position, the number of chunks, the loop index
  \* i, allScenes, allCharacters, isScriptDetected, errorMessage, the
  \* response sent, and
  \* what the oracle returned for each chunk so far
  qPc, qTotal, qIndex, qAllScenes, allCharacters, isScriptDetected,
  errorMessage, qResponse, qVerdicts

VARIABLES
  \* a call of splitTextIntoChunks: which of the three functions, its
  \* arguments, its locals position and chunks, and whether it has returned
  splitter, text, chunkSize, overlap, position, chunks, splitPc

VARIABLES
  \* a call of the merge step: which of the three it is, the results it is
  \* given, the table it returns (<<>> before it returns), and its position
  merger, mResults, mTable, mPc

VARIABLES
  \* a call of determineDN or truncateContent: which of the two, its
  \* arguments, the string it returns, and whether it has returned
  nFunction, nText, nMaxLength, nResult, nPc

uiVars == <<processingStep, error, passwordError, matrixData, progress>>
runVars == <<pc, fullText, prescan, oracleCalled, prescanCharacters, characterHints>>
extVars == <<totalChunks, batchStart, results, completedCount, failedCount>>
chunkVars == <<st, attempt, delay, sentHints>>
pageVars == <<uiVars, runVars, extVars, chunkVars>>
seqVars == <<sIsProcessing, sError, sPasswordError, sMatrixData, sProgress,
             sPc, sTotal, sIndex, sAllScenes, sOutcome>>
postVars == <<qPc, qTotal, qIndex, qAllScenes, allCharacters, isScriptDetected,
              errorMessage, qResponse, qVerdicts>>
splitVars == <<splitter, text, chunkSize, overlap, position, chunks, splitPc>>
mergeVars == <<merger, mResults, mTable, mPc>>
normVars == <<nFunction, nText, nMaxLength, nResult, nPc>>
vars == <<pageVars, seqVars, postVars, splitVars, mergeVars, normVars>>

\* what the actions of one machine leave alone
notPageVars == <<seqVars, postVars, splitVars, mergeVars, normVars>>
notSeqVars == <<pageVars, postVars, splitVars, mergeVars, normVars>>
notPostVars == <<pageVars, seqVars, splitVars, mergeVars, normVars>>
notSplitVars == <<pageVars, seqVars, postVars, mergeVars, normVars>>
notMergeVars == <<pageVars, seqVars, postVars, splitVars, normVars>>
notNormVars == <<pageVars, seqVars, postVars, splitVars, mergeVars>>

(***************************************************************************)
(* The merge step of performDetailedExtraction.                            *)
(***************************************************************************)
\* scene.episode || 1
EpisodeOf(scene) == IF scene.episode = 0 THEN 1 ELSE scene.episode

\* { ...scene, episode, scene_number: sceneNum }
Normalized(scene) == [scene EXCEPT !.episode = EpisodeOf(scene)]

\* the key `${episode}-${sceneNum}`
SceneKey(scene) == <<EpisodeOf(scene), scene.scene_number>>

\* scene.content?.length > scenesMap.get(key).content?.length
LongerContent(scene, kept) ==
  scene.content # -1 /\ kept.content # -1 /\ scene.content > kept.content

\* ScenesMapPut that keeps every scene
ScenesMapPut_KeepsAll(map, scene) == Append(map, Normalized(scene))

\* one iteration of the inner loop: the Map keeps the position of a key's
\* first insertion when its value is replaced
ScenesMapPut(map, scene) ==
  LET hit == {i \in 1..Len(map) : SceneKey(map[i]) = SceneKey(scene)}
  IN IF hit = {} THEN Append(map, Normalized(scene))
     ELSE LET i == CHOOSE j \in hit : TRUE
          IN IF LongerContent(scene, map[i])
             THEN [map EXCEPT ![i] = Normalized(scene)]
             ELSE map

RECURSIVE PutScenes(_, _)
PutScenes(map, scenes) ==
  IF scenes = <<>> THEN map
  ELSE PutScenes(ScenesMapPut(map, Head(scenes)), Tail(scenes))

\* for (const result of results) { if (!result || !result.scenes) continue ... }
RECURSIVE BuildScenesMap(_, _)
BuildScenesMap(map, rs) ==
  IF rs = <<>> THEN map
  ELSE BuildScenesMap(PutScenes(map, Head(rs).data.scenes), Tail(rs))

\* a scene_number that is a number
IsNumeric(sceneNum) == sceneNum >= 0

\* the comparator of the sort: negative when a goes before b.  The
\* difference of two scene numbers is NaN when one of them is not a number,
\* and sort takes a NaN as 0.
CompareScenes(a, b) ==
  IF a.episode # b.episode THEN a.episode - b.episode
  ELSE IF IsNumeric(a.scene_number) /\ IsNumeric(b.scene_number)
  THEN a.scene_number - b.scene_number
  ELSE 0

\* Array.prototype.sort is stable: insert each element after the last one
\* it does not go before
RECURSIVE InsertSorted(_, _)
InsertSorted(sorted, x) ==
  IF sorted = <<>> THEN <<x>>
  ELSE IF CompareScenes(x, Head(sorted)) < 0 THEN <<x>> \o sorted
  ELSE <<Head(sorted)>> \o InsertSorted(Tail(sorted), x)

RECURSIVE SortScenes(_, _)
SortScenes(sorted, rest) ==
  IF rest = <<>> THEN sorted
  ELSE SortScenes(InsertSorted(sorted, Head(rest)), Tail(rest))

\* the comparator is a consistent comparator for the elements of seq: both
\* "goes before" and "compares as 0" are transitive
ConsistentComparator(seq) ==
  \A i, j, k \in 1..Len(seq) :
    /\ (CompareScenes(seq[i], seq[j]) < 0 /\ CompareScenes(seq[j], seq[k]) < 0)
         => CompareScenes(seq[i], seq[k]) < 0
    /\ (CompareScenes(seq[i], seq[j]) = 0 /\ CompareScenes(seq[j], seq[k]) = 0)
         => CompareScenes(seq[i], seq[k]) = 0

\* seq without its element at index i
Without(seq, i) == SubSeq(seq, 1, i - 1) \o SubSeq(seq, i + 1, Len(seq))

\* the orders the elements of seq can be put in
RECURSIVE Reorderings(_)
Reorderings(seq) ==
  IF seq = <<>> THEN {<<>>}
  ELSE UNION { {<<seq[i]>> \o rest : rest \in Reorderings(Without(seq, i))} :
               i \in 1..Len(seq) }

\* what sort can leave: the stable order, or, when the comparator is not
\* consistent, an order the engine is free to choose
SortOutcomes(seq) ==
  IF ConsistentComparator(seq) THEN {SortScenes(<<>>, seq)} ELSE Reorderings(seq)

\* the Set allCharacters: every string of the characters list of a result
AllCharacters(rs) ==
  UNION { {rs[i].data.characters[1][j] : j \in 1..Len(rs[i].data.characters[1])} :
          i \in {k \in 1..Len(rs) : rs[k].data.characters # <<>>} }

\* isPresent: scene.characters?.some(sc => sc === char || scName === name)
IsPresent(scene, char) ==
  IF scene.characters = <<>> THEN "undefined"
  ELSE IF \E j \in 1..Len(scene.characters[1]) :
            \/ scene.characters[1][j] = char
            \/ extractCharacterWithAge(scene.characters[1][j]).name
                 = extractCharacterWithAge(char).name
  THEN "true"
  ELSE "false"

\* one row of the table: the scene label, location and content, and the
\* characters map with an entry for each string of sortedCharacters
ProcessedScene(scene, sortedCharacters) ==
  [scene |-> IF scene.episode > 1
             THEN <<scene.episode, scene.scene_number>>
             ELSE <<scene.scene_number>>,
   location |-> scene.location,
   content |-> scene.content,
   characters |-> [char \in {sortedCharacters[i] : i \in 1..Len(sortedCharacters)}
                     |-> IsPresent(scene, char)]]

\* "for (const scene of result.scenes)" throws a TypeError when scenes is a
\* truthy value that cannot be iterated
MergeThrows(rs) == \E i \in 1..Len(rs) : rs[i].data.shape = "notIterable"

\* the value returned for sortedScenes
MergedTable(sortedScenes, rs) ==
  LET sortedCharacters == SortStrings(AllCharacters(rs))
  IN [characters |-> sortedCharacters,
      scenes |-> [i \in 1..Len(sortedScenes)
                    |-> ProcessedScene(sortedScenes[i], sortedCharacters)]]

MergeResults(rs) == MergedTable(SortScenes(<<>>, BuildScenesMap(<<>>, rs)), rs)

\* the tables the merge can return for rs
MergeOutcomes(rs) ==
  LET scenesMap == BuildScenesMap(<<>>, rs)
      sortedCharacters == SortStrings(AllCharacters(rs))
      \* sortedScenes.map(scene => ...): the row of a scene does not depend
      \* on the place of the scene
      processed == [scene \in {scenesMap[i] : i \in 1..Len(scenesMap)}
                      |-> ProcessedScene(scene, sortedCharacters)]
  IN {[characters |-> roster,
       scenes |-> [i \in 1..Len(sortedScenes) |-> rows[sortedScenes[i]]]] :
        roster \in {sortedCharacters}, rows \in {processed},
        sortedScenes \in SortOutcomes(scenesMap)}

\* the table the file-upload endpoint returns for a pdf or docx file
ServerTable ==
  [characters |-> <<Name_T>>,
   scenes |-> <<[scene |-> <<1>>, location |-> "A", content |-> 1,
                 characters |-> [char \in {Name_T} |-> "true"]]>>]

(***************************************************************************)
(* The page (the version with prescan and batched extraction).             *)
(***************************************************************************)
Passwords == {"good", "bad"}
InputModes == {"file", "text"}
FileTypes == {"pdf", "docx", "txt"}
\* a text: the empty string, whitespace only, or something else
TextKinds == {"empty", "blank", "text"}
\* the selected file: none, or the kind of text it holds
FileKinds == {"none"} \cup TextKinds

\* the form states handleSubmit is run on: password, inputMode, fileType,
\* file and scriptText, where a field that handleSubmit does not read on the
\* path the other fields select has the value the form starts with
FormStates ==
  {form \in Passwords \X InputModes \X FileTypes \X FileKinds \X TextKinds :
     LET password == form[1]
         inputMode == form[2]
         fileType == form[3]
         file == form[4]
         scriptText == form[5]
     IN IF password # "good"
        THEN <<inputMode, fileType, file, scriptText>> = <<"file", "pdf", "none", "empty">>
        ELSE IF inputMode = "text"
        THEN fileType = "pdf" /\ file = "none"
        ELSE /\ scriptText = "empty"
             /\ file = "none" => fileType = "pdf"
             /\ (file # "none" /\ fileType # "txt") => file = "text"}

\* const isProcessing = processingStep !== 'idle' && processingStep !== 'complete'
isProcessing == processingStep \notin {"idle", "complete"}

\* the form is rendered while there is no table: {!matrixData ? (form) : ...}
FormVisible == matrixData = <<>>

\* the browser runs handlers unless the main thread is stuck in the split loop
Responsive == pc # "splitting"

FreshChunks ==
  /\ st' = [c \in Chunks |-> "none"]
  /\ attempt' = [c \in Chunks |-> 0]
  /\ delay' = [c \in Chunks |-> 0]
  /\ sentHints' = [c \in Chunks |-> <<>>]

FreshExtraction ==
  /\ totalChunks' = 0
  /\ batchStart' = 0
  /\ results' = <<>>
  /\ completedCount' = 0
  /\ failedCount' = 0

PageInit ==
  /\ processingStep = "idle"
  /\ error = ""
  /\ passwordError = ""
  /\ matrixData = <<>>
  /\ progress = [current |-> 0, total |-> 0]
  /\ pc = "idle"
  /\ fullText = "empty"
  /\ prescan = "none"
  /\ oracleCalled = FALSE
  /\ prescanCharacters = <<>>
  /\ characterHints = <<>>
  /\ totalChunks = 0
  /\ batchStart = 0
  /\ results = <<>>
  /\ completedCount = 0
  /\ failedCount = 0
  /\ st = [c \in Chunks |-> "none"]
  /\ attempt = [c \in Chunks |-> 0]
  /\ delay = [c \in Chunks |-> 0]
  /\ sentHints = [c \in Chunks |-> <<>>]

\* FailRun without setProcessingStep('idle')
FailRun_KeepsStep(message) ==
  /\ error' = message
  /\ processingStep' = processingStep
  /\ pc' = "returned"

\* the run ends with a message: setError(...); setProcessingStep('idle')
FailRun(message) ==
  /\ error' = message
  /\ processingStep' = "idle"
  /\ pc' = "returned"

\* setProgress({ current: 0, total: 1, ... }) and the fetch of performPreScan
StartPreScan(txt) ==
  /\ fullText' = txt
  /\ progress' = [current |-> 0, total |-> 1]
  /\ processingStep' = "prescan"
  /\ prescan' = "pending"
  /\ pc' = "prescan"
  /\ UNCHANGED <<matrixData>>

\* no prescan response has been read
NoPrescanData ==
  /\ prescanCharacters' = <<>>
  /\ characterHints' = <<>>

\* handleSubmit up to its first await, on the form state it closes over
handleSubmit(password, inputMode, fileType, file, scriptText) ==
  /\ UNCHANGED notPageVars
  /\ Responsive
  /\ ~isProcessing
  /\ FormVisible
  /\ FreshChunks
  /\ FreshExtraction
  /\ oracleCalled' = FALSE
  /\ NoPrescanData
  /\ IF password # "good"
     THEN \* validatePassword fails: return
          /\ passwordError' = "badPassword"
          /\ pc' = "returned"
          /\ prescan' = "none"
          /\ UNCHANGED <<processingStep, error, matrixData, progress, fullText>>
     ELSE /\ passwordError' = ""
          /\ IF inputMode = "file"
             THEN IF file = "none"
                  THEN /\ FailRun("noFile")
                       /\ prescan' = "none"
                       /\ UNCHANGED <<matrixData, progress, fullText>>
                  ELSE IF fileType = "txt"
                  THEN \* await file.text()
                       /\ error' = ""
                       /\ processingStep' = "prescan"
                       /\ pc' = "readFile"
                       /\ fullText' = file
                       /\ prescan' = "none"
                       /\ UNCHANGED <<matrixData, progress>>
                  ELSE \* the plain request that carries pdfData or docxData
                       /\ error' = ""
                       /\ processingStep' = "prescan"
                       /\ pc' = "parseRequest"
                       /\ prescan' = "none"
                       /\ UNCHANGED <<matrixData, progress, fullText>>
             ELSE IF scriptText # "text"
                  THEN \* !scriptText.trim()
                       /\ FailRun("noText")
                       /\ prescan' = "none"
                       /\ UNCHANGED <<matrixData, progress, fullText>>
                  ELSE /\ error' = ""
                       /\ StartPreScan(scriptText)

\* file.text() settles
FileTextRead(ok) ==
  /\ UNCHANGED notPageVars
  /\ pc = "readFile"
  /\ IF ok
     THEN /\ StartPreScan(fullText)
          /\ UNCHANGED <<error>>
     ELSE /\ FailRun("readFailed")
          /\ UNCHANGED <<matrixData, progress, fullText, prescan>>
  /\ UNCHANGED <<passwordError, oracleCalled, prescanCharacters, characterHints,
                 extVars, chunkVars>>

\* the response to the pdf/docx request
ParseRespond(r) ==
  /\ UNCHANGED notPageVars
  /\ pc = "parseRequest"
  /\ IF r = "data"
     THEN /\ matrixData' = <<ServerTable>>
          /\ processingStep' = "complete"
          /\ pc' = "returned"
          /\ UNCHANGED <<error>>
     ELSE /\ FailRun(IF r = "non_script" THEN "notScript" ELSE "fileParse")
          /\ UNCHANGED <<matrixData>>
  /\ UNCHANGED <<passwordError, progress, fullText, prescan, oracleCalled,
                 prescanCharacters, characterHints, extVars, chunkVars>>

\* BatchOf with chunks.slice(i, i + 4)
BatchOf_Four(i, n) == {c \in Chunks : i <= c /\ c < i + BATCH_SIZE + 1 /\ c < n}

\* the members of the batch that starts at chunk i, of n chunks
BatchOf(i, n) == {c \in Chunks : i <= c /\ c < i + BATCH_SIZE /\ c < n}

\* RequestHints that sends the hints with the first attempt only
RequestHints_FirstAttemptOnly(hints, a) == IF a = 1 THEN hints ELSE <<>>

\* character_hints of the body of the request of attempt a: the argument
\* characterHints of processChunkWithRetry
RequestHints(hints, a) == hints

\* Backoff that waits the same time after every attempt
Backoff_Constant(a) == 1000

\* the milliseconds of setTimeout(resolve, 1000 * attempt)
Backoff(a) == 1000 * a

\* batch.map(async ...): every member runs to its first fetch
IssueBatch(i, n, hints) ==
  /\ st' = [c \in Chunks |->
              IF c \in BatchOf(i, n) THEN "attempting"
              ELSE IF c >= i /\ c < n THEN "pending" ELSE st[c]]
  /\ attempt' = [c \in Chunks |-> IF c \in BatchOf(i, n) THEN 1 ELSE attempt[c]]
  /\ delay' = [c \in Chunks |-> IF c \in BatchOf(i, n) THEN 0 ELSE delay[c]]
  /\ sentHints' = [c \in Chunks |->
                     IF c \in BatchOf(i, n) THEN <<RequestHints(hints, 1)>>
                     ELSE sentHints[c]]

\* the chunk lists performDetailedExtraction can be handed for a text
ChunkCounts(txt) == IF txt = "empty" THEN {0} ELSE 1..MaxChunks

\* performDetailedExtraction from the chunk list to the first await
StartExtraction(n) ==
  /\ totalChunks' = n
  /\ progress' = [current |-> 0, total |-> n]
  /\ completedCount' = 0
  /\ failedCount' = 0
  /\ results' = <<>>
  /\ batchStart' = 0
  /\ IF n = 0
     THEN \* the loop body never runs and results.length === 0
          /\ FailRun("allFailed")
          /\ UNCHANGED chunkVars
     ELSE /\ processingStep' = "extraction"
          /\ pc' = "extracting"
          /\ IssueBatch(0, n, characterHints')
          /\ UNCHANGED error

\* PreScanPasses without the is_script test
PreScanPasses_IgnoresIsScript(r) == r \in {"data", "non_script"}

\* performPreScan returns (it throws on a non-success status, on a rejected
\* fetch and on a body whose is_script is falsy)
PreScanPasses(r) == r = "data"

\* ServerRejects that tests the text for emptiness only
ServerRejects_EmptyOnly(txt) == txt = "empty"

\* the endpoint answers 400 before it calls the oracle: the text is falsy,
\* or scriptText.trim().length === 0
ServerRejects(txt) == txt # "text"

\* the characters field of a prescan response: none, or a list
CharactersFields == {<<>>, <<<<Name_T, Name_S>>>>}

\* return { characters: data.characters || [], ... } and its destructuring
\* in handleSubmit
PreScanReturn(field) ==
  /\ prescanCharacters' = field
  /\ characterHints' = IF field = <<>> THEN <<>> ELSE field[1]

\* The response to the prescan request, and what handleSubmit does next.
\* o tells whether the endpoint got as far as its oracle call: it did not
\* when it rejected the text, it did when the body is the oracle's JSON.
PreScanRespond(r, n, o) ==
  /\ UNCHANGED notPageVars
  /\ pc = "prescan"
  /\ ServerRejects(fullText) => (r \in {"http_error", "throw"} /\ ~o)
  /\ r \in {"data", "non_script"} => o
  /\ oracleCalled' = o
  /\ prescan' = r
  /\ IF PreScanPasses(r)
     THEN /\ n \in ChunkCounts(fullText)
          /\ \E field \in CharactersFields : PreScanReturn(field)
          /\ StartExtraction(n)
     ELSE /\ FailRun(IF r = "non_script" THEN "notScript" ELSE "prescanError")
          /\ UNCHANGED <<progress, prescanCharacters, characterHints, extVars, chunkVars>>
  /\ UNCHANGED <<passwordError, matrixData, fullText>>

\* the split loop of a non-empty text does not come back
SplitDiverges ==
  /\ UNCHANGED notPageVars
  /\ pc = "prescan"
  /\ ~ServerRejects(fullText)
  /\ prescan' = "data"
  /\ oracleCalled' = TRUE
  /\ \E field \in CharactersFields : PreScanReturn(field)
  /\ processingStep' = "extraction"
  /\ pc' = "splitting"
  /\ UNCHANGED <<error, passwordError, matrixData, progress, fullText, extVars, chunkVars>>

\* AttemptOutcome that gives up at the first failure
AttemptOutcome_NoRetry(a, r) == IF r = "data" THEN "return" ELSE "throw"

\* processChunkWithRetry, one pass of its loop: what the call does with the
\* response r to the request of attempt a
AttemptOutcome(a, r) ==
  IF r = "data" THEN "return"
  ELSE IF a < MAX_RETRIES THEN "retry"
  ELSE "throw"

\* Settle that pushes the data whatever the outcome
Settle_PushAlways(c, outcome, d) ==
  /\ results' = Append(results, [chunk |-> c, data |-> d])
  /\ IF outcome = "return"
     THEN /\ completedCount' = completedCount + 1
          /\ failedCount' = failedCount
          /\ st' = [st EXCEPT ![c] = "succeeded"]
     ELSE /\ completedCount' = completedCount
          /\ failedCount' = failedCount + 1
          /\ st' = [st EXCEPT ![c] = "exhausted"]
  /\ progress' = [current |-> completedCount' + failedCount', total |-> totalChunks]
  /\ attempt' = [attempt EXCEPT ![c] = 0]
  /\ delay' = [delay EXCEPT ![c] = 0]
  /\ UNCHANGED sentHints

\* Settle that leaves failed chunks out of the progress count
Settle_FailuresUncounted(c, outcome, d) ==
  /\ IF outcome = "return"
     THEN /\ results' = Append(results, [chunk |-> c, data |-> d])
          /\ completedCount' = completedCount + 1
          /\ st' = [st EXCEPT ![c] = "succeeded"]
     ELSE /\ results' = results
          /\ completedCount' = completedCount
          /\ st' = [st EXCEPT ![c] = "exhausted"]
  /\ failedCount' = failedCount
  /\ progress' = [current |-> completedCount' + failedCount', total |-> totalChunks]
  /\ attempt' = [attempt EXCEPT ![c] = 0]
  /\ delay' = [delay EXCEPT ![c] = 0]
  /\ UNCHANGED sentHints

\* the batch member after "await processChunkWithRetry(...)": push the data
\* and count the chunk as completed, or count it as failed; then setProgress
Settle(c, outcome, d) ==
  /\ IF outcome = "return"
     THEN /\ results' = Append(results, [chunk |-> c, data |-> d])
          /\ completedCount' = completedCount + 1
          /\ failedCount' = failedCount
          /\ st' = [st EXCEPT ![c] = "succeeded"]
     ELSE /\ results' = results
          /\ completedCount' = completedCount
          /\ failedCount' = failedCount + 1
          /\ st' = [st EXCEPT ![c] = "exhausted"]
  /\ progress' = [current |-> completedCount' + failedCount', total |-> totalChunks]
  \* the call of processChunkWithRetry is over: its locals are gone
  /\ attempt' = [attempt EXCEPT ![c] = 0]
  /\ delay' = [delay EXCEPT ![c] = 0]
  /\ UNCHANGED sentHints

\* The response to the request of chunk c arrives.  The call either waits
\* for its next attempt, or returns or throws into the batch member, which
\* runs on without another event in between.
ChunkResponse(c, r, d) ==
  /\ UNCHANGED notPageVars
  /\ pc = "extracting"
  /\ st[c] = "attempting"
  /\ IF AttemptOutcome(attempt[c], r) = "retry"
     THEN \* await new Promise(resolve => setTimeout(resolve, 1000 * attempt))
          /\ st' = [st EXCEPT ![c] = "retrying"]
          /\ delay' = [delay EXCEPT ![c] = Backoff(attempt[c])]
          /\ UNCHANGED <<attempt, sentHints, results, completedCount, failedCount,
                         progress>>
     ELSE Settle(c, AttemptOutcome(attempt[c], r), d)
  /\ UNCHANGED <<totalChunks, batchStart>>
  /\ UNCHANGED <<processingStep, error, passwordError, matrixData, runVars>>

\* the timer of setTimeout(resolve, 1000 * attempt) fires: the next attempt
BackoffElapsed(c) ==
  /\ UNCHANGED notPageVars
  /\ pc = "extracting"
  /\ st[c] = "retrying"
  /\ attempt' = [attempt EXCEPT ![c] = attempt[c] + 1]
  /\ st' = [st EXCEPT ![c] = "attempting"]
  /\ sentHints' = [sentHints EXCEPT
                     ![c] = <<RequestHints(characterHints, attempt[c] + 1)>>]
  /\ UNCHANGED delay
  /\ UNCHANGED <<uiVars, runVars, extVars>>

\* BatchSettled that resolves only when every member succeeded
BatchSettled_SuccessOnly ==
  \A c \in BatchOf(batchStart, totalChunks) : st[c] = "succeeded"

\* BatchSettled that resolves with the first member that settles
BatchSettled_AnyMember ==
  \E c \in BatchOf(batchStart, totalChunks) : st[c] \in {"succeeded", "exhausted"}

\* await Promise.all(batchPromises) resolves
BatchSettled ==
  \A c \in BatchOf(batchStart, totalChunks) : st[c] \in {"succeeded", "exhausted"}

\* the next iteration of the batch loop
NextBatch ==
  /\ UNCHANGED notPageVars
  /\ pc = "extracting"
  /\ BatchSettled
  /\ batchStart + BATCH_SIZE < totalChunks
  /\ batchStart' = batchStart + BATCH_SIZE
  /\ IssueBatch(batchStart + BATCH_SIZE, totalChunks, characterHints)
  /\ UNCHANGED <<totalChunks, results, completedCount, failedCount, uiVars, runVars>>

\* after the loop: the aggregate error, or the merge and the end of handleSubmit
FinishExtraction ==
  /\ UNCHANGED notPageVars
  /\ pc = "extracting"
  /\ BatchSettled
  /\ ~(batchStart + BATCH_SIZE < totalChunks)
  /\ IF Len(results) = 0
     THEN /\ FailRun("allFailed")
          /\ UNCHANGED matrixData
     ELSE IF MergeThrows(results)
     THEN /\ FailRun("typeError")
          /\ UNCHANGED matrixData
     ELSE /\ \E table \in MergeOutcomes(results) : matrixData' = <<table>>
          /\ processingStep' = "complete"
          /\ pc' = "returned"
          /\ UNCHANGED error
  /\ UNCHANGED <<passwordError, progress, fullText, prescan, oracleCalled,
                 prescanCharacters, characterHints, extVars, chunkVars>>

\* Another handler runs.  After a run has returned its locals are gone: the
\* state "returned" shows them as the run left them, and the next handler
\* finds none.
Touch ==
  IF pc = "returned"
  THEN /\ pc' = "idle"
       /\ fullText' = "empty"
       /\ prescan' = "none"
       /\ oracleCalled' = FALSE
       /\ NoPrescanData
       /\ FreshExtraction
       /\ FreshChunks
  ELSE UNCHANGED <<runVars, extVars, chunkVars>>

\* handleFileChange: a file of the selected type, or an error message
handleFileChange(valid) ==
  /\ UNCHANGED notPageVars
  /\ Responsive
  /\ FormVisible
  /\ error' = IF valid THEN "" ELSE "fileType"
  /\ Touch
  /\ UNCHANGED <<processingStep, passwordError, matrixData, progress>>

\* the password field's onChange: setPassword; setPasswordError('')
PasswordChange ==
  /\ UNCHANGED notPageVars
  /\ Responsive
  /\ FormVisible
  /\ passwordError' = ""
  /\ Touch
  /\ UNCHANGED <<processingStep, error, matrixData, progress>>

\* handleReset: the button shown with the table
handleReset ==
  /\ UNCHANGED notPageVars
  /\ Responsive
  /\ ~FormVisible
  /\ matrixData' = <<>>
  /\ error' = ""
  /\ processingStep' = "idle"
  /\ progress' = [current |-> 0, total |-> 0]
  /\ Touch
  /\ UNCHANGED passwordError

\* a request in flight for chunk c resolves or rejects; the body is read
\* only of a response of kind "data", the others are given an empty one
ChunkResponds(c) ==
  \E r \in ResponseKinds :
    \E d \in (IF r = "data" THEN Payloads
              ELSE {[shape |-> "list", scenes |-> <<>>, characters |-> <<>>]}) :
      ChunkResponse(c, r, d)

Next ==
  \/ \E form \in FormStates :
        handleSubmit(form[1], form[2], form[3], form[4], form[5])
  \/ \E ok \in BOOLEAN : FileTextRead(ok)
  \/ \E r \in ResponseKinds : ParseRespond(r)
  \/ \E r \in ResponseKinds, n \in 0..MaxChunks, o \in BOOLEAN :
        PreScanRespond(r, n, o)
  \/ SplitDiverges
  \/ \E c \in Chunks : ChunkResponds(c)
  \/ \E c \in Chunks : BackoffElapsed(c)
  \/ NextBatch
  \/ FinishExtraction
  \/ \E valid \in BOOLEAN : handleFileChange(valid)
  \/ PasswordChange
  \/ handleReset

\* One run of handleSubmit on the page as constructed, to its end: the
\* submit, the responses, the timers and the continuations of the run.
\* The chunk list is a finite list: the split is taken to have returned.
RunNext ==
  \/ \E form \in FormStates :
        pc = "idle" /\ handleSubmit(form[1], form[2], form[3], form[4], form[5])
  \/ \E ok \in BOOLEAN : FileTextRead(ok)
  \/ \E r \in ResponseKinds : ParseRespond(r)
  \/ \E r \in ResponseKinds, n \in 0..MaxChunks, o \in BOOLEAN :
        PreScanRespond(r, n, o)
  \/ \E c \in Chunks : ChunkResponds(c)
  \/ \E c \in Chunks : BackoffElapsed(c)
  \/ NextBatch
  \/ FinishExtraction

\* FinishExtraction can be taken: the last batch has settled
FinishEnabled ==
  pc = "extracting" /\ BatchSettled /\ ~(batchStart + BATCH_SIZE < totalChunks)

\* every request resolves or rejects, every timer fires, and a continuation
\* that can run does run.  From the pre-scan on, weak fairness of a step is
\* written with the step's enabling condition spelled out:
\* WF_vars(A) is []<>(~ENABLED <<A>>_vars) \/ []<><<A>>_vars.
RunFairness ==
  /\ WF_vars(\E ok \in BOOLEAN : FileTextRead(ok))
  /\ WF_vars(\E r \in ResponseKinds : ParseRespond(r))
  /\ \/ []<>(pc # "prescan")
     \/ []<><<\E r \in ResponseKinds, n \in 0..MaxChunks, o \in BOOLEAN :
                 PreScanRespond(r, n, o)>>_vars
  /\ \A c \in Chunks :
       /\ \/ []<>(~(pc = "extracting" /\ st[c] = "attempting"))
          \/ []<><<ChunkResponds(c)>>_vars
       /\ \/ []<>(~(pc = "extracting" /\ st[c] = "retrying"))
          \/ []<><<BackoffElapsed(c)>>_vars
  /\ \/ []<>(~(pc = "extracting" /\ BatchSettled
                  /\ batchStart + BATCH_SIZE < totalChunks))
     \/ []<><<NextBatch>>_vars
  /\ \/ []<>(~FinishEnabled)
     \/ []<><<FinishExtraction>>_vars

(***************************************************************************)
(* The sequential page: handleSubmit and processTextSequentially.          *)
(***************************************************************************)
\* the form is rendered while there is no table
Seq_FormVisible == sMatrixData = <<>>

Seq_FreshRun ==
  /\ sTotal' = 0
  /\ sIndex' = 0
  /\ sAllScenes' = <<>>
  /\ sOutcome' = <<>>

SeqInit ==
  /\ sIsProcessing = FALSE
  /\ sError = ""
  /\ sPasswordError = ""
  /\ sMatrixData = <<>>
  /\ sProgress = [current |-> 0, total |-> 0]
  /\ sPc = "idle"
  /\ sTotal = 0
  /\ sIndex = 0
  /\ sAllScenes = <<>>
  /\ sOutcome = <<>>

\* the Set allCharacters: every string of the characters of a scene that
\* are an array
Seq_AllCharacters(allScenes) ==
  UNION { {allScenes[i].characters[1][j] : j \in 1..Len(allScenes[i].characters[1])} :
          i \in {k \in 1..Len(allScenes) : allScenes[k].characters # <<>>} }

\* isPresent: scene.characters?.includes(char) || false
Seq_IsPresent(scene, char) ==
  IF scene.characters # <<>>
     /\ \E j \in 1..Len(scene.characters[1]) : scene.characters[1][j] = char
  THEN "true"
  ELSE "false"

\* one row of allScenes.map(...): the scene label, location and content,
\* and the characters map
Seq_ProcessedScene(scene, index, sortedCharacters) ==
  [scene |-> IF scene.scene_number # 0 THEN <<scene.scene_number>> ELSE <<index>>,
   location |-> scene.location,
   content |-> IF scene.content = -1 THEN 0 ELSE scene.content,
   characters |-> [char \in {sortedCharacters[i] : i \in 1..Len(sortedCharacters)}
                     |-> Seq_IsPresent(scene, char)]]

\* the value processTextSequentially returns
Seq_Table(allScenes) ==
  LET sortedCharacters == SortStrings(Seq_AllCharacters(allScenes))
  IN [characters |-> sortedCharacters,
      scenes |-> [i \in 1..Len(allScenes)
                    |-> Seq_ProcessedScene(allScenes[i], i, sortedCharacters)]]

\* the chunk lists splitTextIntoChunks(fullText, CHUNK_SIZE) gives for a
\* text that passed the !scriptText.trim() test
Seq_ChunkCounts == 1..MaxChunks

\* handleSubmit up to its first await
Seq_handleSubmit(password, inputMode, file, scriptText, n) ==
  /\ UNCHANGED notSeqVars
  /\ ~sIsProcessing
  /\ Seq_FormVisible
  /\ sIndex' = 0
  /\ sAllScenes' = <<>>
  /\ sOutcome' = <<>>
  /\ IF password # "good"
     THEN \* validatePassword fails: return
          /\ sPasswordError' = "badPassword"
          /\ sPc' = "returned"
          /\ sTotal' = 0
          /\ UNCHANGED <<sIsProcessing, sError, sMatrixData, sProgress>>
     ELSE /\ sPasswordError' = ""
          /\ IF inputMode = "file"
             THEN IF file = "none"
                  THEN /\ sError' = "noFile"
                       /\ sIsProcessing' = FALSE
                       /\ sPc' = "returned"
                       /\ sTotal' = 0
                       /\ UNCHANGED <<sMatrixData, sProgress>>
                  ELSE \* file.arrayBuffer() and the single request
                       /\ sError' = ""
                       /\ sIsProcessing' = TRUE
                       /\ sPc' = "fileRequest"
                       /\ sTotal' = 0
                       /\ UNCHANGED <<sMatrixData, sProgress>>
             ELSE IF scriptText # "text"
                  THEN \* !scriptText.trim()
                       /\ sError' = "noText"
                       /\ sIsProcessing' = FALSE
                       /\ sPc' = "returned"
                       /\ sTotal' = 0
                       /\ UNCHANGED <<sMatrixData, sProgress>>
                  ELSE \* processTextSequentially up to the first fetch
                       /\ n \in Seq_ChunkCounts
                       /\ sError' = ""
                       /\ sIsProcessing' = TRUE
                       /\ sTotal' = n
                       /\ sProgress' = [current |-> 0, total |-> n]
                       /\ sPc' = "chunkRequest"
                       /\ UNCHANGED <<sMatrixData>>

\* the response to the request that carries pdfData or docxData
Seq_FileRespond(r, d) ==
  /\ UNCHANGED notSeqVars
  /\ sPc = "fileRequest"
  /\ IF r = "data" /\ d.shape = "list"
     THEN /\ sMatrixData' = <<Seq_Table(d.scenes)>>
          /\ UNCHANGED sError
     ELSE /\ sError' = IF r = "non_script" THEN "notScript"
                       ELSE IF r = "data" THEN "typeError" ELSE "fileParse"
          /\ UNCHANGED sMatrixData
  /\ sIsProcessing' = FALSE
  /\ sPc' = "returned"
  /\ UNCHANGED <<sPasswordError, sProgress, sTotal, sIndex, sAllScenes, sOutcome>>

\* the try block of the loop body runs to its end (it throws on a
\* non-success status, on a rejected fetch and on a falsy is_script)
Seq_Succeeds(r) == r = "data"

\* data.scenes && Array.isArray(data.scenes): allScenes.push(...data.scenes)
Seq_PushScenes(allScenes, r, d) ==
  IF Seq_Succeeds(r) /\ d.shape = "list" THEN allScenes \o d.scenes ELSE allScenes

\* The response to the request of chunk i arrives: the rest of the loop
\* body, and either the next fetch or the rest of processTextSequentially
\* and of handleSubmit.
Seq_ChunkRespond(r, d) ==
  /\ UNCHANGED notSeqVars
  /\ sPc = "chunkRequest"
  /\ sAllScenes' = Seq_PushScenes(sAllScenes, r, d)
  /\ sOutcome' = Append(sOutcome, IF Seq_Succeeds(r) THEN "ok" ELSE "failed")
  /\ sProgress' = IF Seq_Succeeds(r)
                  THEN [current |-> sIndex + 1, total |-> sTotal]
                  ELSE sProgress
  /\ sIndex' = sIndex + 1
  /\ IF sIndex + 1 < sTotal
     THEN UNCHANGED <<sPc, sMatrixData, sIsProcessing>>
     ELSE \* setMatrixData(result); finally setIsProcessing(false)
          /\ sMatrixData' = <<Seq_Table(sAllScenes')>>
          /\ sIsProcessing' = FALSE
          /\ sPc' = "returned"
  /\ UNCHANGED <<sError, sPasswordError, sTotal>>

\* another handler runs: the locals of a run that has returned are gone
Seq_Touch ==
  IF sPc = "returned"
  THEN /\ sPc' = "idle"
       /\ Seq_FreshRun
  ELSE UNCHANGED <<sPc, sTotal, sIndex, sAllScenes, sOutcome>>

\* handleFileChange: a file of the selected type, or an error message
Seq_handleFileChange(valid) ==
  /\ UNCHANGED notSeqVars
  /\ Seq_FormVisible
  /\ sError' = IF valid THEN "" ELSE "fileType"
  /\ Seq_Touch
  /\ UNCHANGED <<sIsProcessing, sPasswordError, sMatrixData, sProgress>>

\* the password field's onChange: setPassword; setPasswordError('')
Seq_PasswordChange ==
  /\ UNCHANGED notSeqVars
  /\ Seq_FormVisible
  /\ sPasswordError' = ""
  /\ Seq_Touch
  /\ UNCHANGED <<sIsProcessing, sError, sMatrixData, sProgress>>

\* handleReset: the button shown with the table
Seq_handleReset ==
  /\ UNCHANGED notSeqVars
  /\ ~Seq_FormVisible
  /\ sMatrixData' = <<>>
  /\ sError' = ""
  /\ sIsProcessing' = FALSE
  /\ sProgress' = [current |-> 0, total |-> 0]
  /\ Seq_Touch
  /\ UNCHANGED sPasswordError

SeqNext ==
  \/ \E p \in Passwords, m \in InputModes, f \in FileKinds, s \in TextKinds,
        n \in Seq_ChunkCounts : Seq_handleSubmit(p, m, f, s, n)
  \/ \E r \in ResponseKinds, d \in Payloads : Seq_FileRespond(r, d)
  \/ \E r \in ResponseKinds, d \in Payloads : Seq_ChunkRespond(r, d)
  \/ \E valid \in BOOLEAN : Seq_handleFileChange(valid)
  \/ Seq_PasswordChange
  \/ Seq_handleReset

(***************************************************************************)
(* The server's POST: one oracle call per chunk, in order.                 *)
(***************************************************************************)
\* what the body of the request carries
RequestBodies == {"pdfData", "docxData", "text", "none"}

\* what one oracle call comes to: the call rejects, the completion has no
\* content, the content is not JSON, is_script is falsy, or data
OracleVerdicts == {"throw", "empty", "unparsable", "non_script", "data"}

NoResponse == [kind |-> "none", message |-> "", characters |-> <<>>, scenes |-> <<>>]

PostInit ==
  /\ qPc = "idle"
  /\ qTotal = 0
  /\ qIndex = 0
  /\ qAllScenes = <<>>
  /\ allCharacters = <<>>
  /\ isScriptDetected = FALSE
  /\ errorMessage = ""
  /\ qResponse = NoResponse
  /\ qVerdicts = <<>>

\* NextResponse.json({ error }, { status })
ErrorResponse(status) ==
  [kind |-> status, message |-> "", characters |-> <<>>, scenes |-> <<>>]

\* one row of allScenes.map(...): scene.scene || String(index + 1) (the
\* record's scene_number stands for its scene field), location, content,
\* and the characters map
Post_ProcessedScene(scene, index, roster) ==
  [scene |-> IF scene.scene_number # 0 THEN <<scene.scene_number>> ELSE <<index>>,
   location |-> scene.location,
   content |-> scene.content,
   characters |-> [char \in {roster[i] : i \in 1..Len(roster)}
                     |-> IsPresent(scene, char)]]

\* scene.characters.some(...) throws a TypeError for a scene without a
\* characters list
Post_MapThrows(allScenes) ==
  \E i \in 1..Len(allScenes) : allScenes[i].characters = <<>>

\* after the loop: the is_script: false answer, or the table, or the answer
\* of the outer catch
Post_Finish(detected, message, allScenes, roster) ==
  IF ~detected
  THEN [kind |-> "not_script",
        message |-> IF message # "" THEN message ELSE "default",
        characters |-> <<>>,
        scenes |-> <<>>]
  ELSE IF Post_MapThrows(allScenes)
  THEN ErrorResponse("500")
  ELSE [kind |-> "table", message |-> "",
        characters |-> roster,
        scenes |-> [i \in 1..Len(allScenes)
                      |-> Post_ProcessedScene(allScenes[i], i, roster)]]

\* the loop body throws on the data of a chunk: mergeCharacters iterates
\* parsedData.characters, and the inner loop parsedData.scenes
Post_BodyThrows(d) == d.characters = <<>> \/ d.shape = "notIterable"

\* the chunk lists splitTextIntoChunks(scriptText, 7000) gives for a text
\* that has a character other than whitespace
Post_ChunkCounts == 1..MaxChunks

\* the locals of the loop before its first pass, and the first oracle call
Post_StartLoop(n) ==
  /\ qTotal' = n
  /\ qIndex' = 0
  /\ qAllScenes' = <<>>
  /\ allCharacters' = <<>>
  /\ isScriptDetected' = FALSE
  /\ errorMessage' = ""
  /\ qVerdicts' = <<>>
  /\ qResponse' = NoResponse
  /\ qPc' = "oracle"

\* the handler answers without having entered the loop
Post_Answer(response) ==
  /\ qTotal' = 0
  /\ qIndex' = 0
  /\ qAllScenes' = <<>>
  /\ allCharacters' = <<>>
  /\ isScriptDetected' = FALSE
  /\ errorMessage' = ""
  /\ qVerdicts' = <<>>
  /\ qResponse' = response
  /\ qPc' = "responded"

\* what the handler does with the script text once it has it
Post_WithText(scriptText, n) ==
  IF scriptText # "text"
  THEN \* !scriptText || scriptText.trim().length === 0
       Post_Answer(ErrorResponse("400"))
  ELSE /\ n \in Post_ChunkCounts
       /\ Post_StartLoop(n)

\* a request arrives: POST up to its first await after request.json()
POST(body, scriptText, n) ==
  /\ UNCHANGED notPostVars
  /\ qPc \in {"idle", "responded"}
  /\ IF body = "none" \/ (body = "text" /\ scriptText = "empty")
     THEN Post_Answer(ErrorResponse("400"))
     ELSE IF body = "text"
     THEN Post_WithText(scriptText, n)
     ELSE \* await pdfParse(buffer) or await mammoth.extractRawText(...)
          /\ qPc' = "parsing"
          /\ qResponse' = NoResponse
          /\ qTotal' = 0
          /\ qIndex' = 0
          /\ qAllScenes' = <<>>
          /\ allCharacters' = <<>>
          /\ isScriptDetected' = FALSE
          /\ errorMessage' = ""
          /\ qVerdicts' = <<>>

\* the parser of the uploaded file settles
Post_FileParsed(ok, scriptText, n) ==
  /\ UNCHANGED notPostVars
  /\ qPc = "parsing"
  /\ IF ok
     THEN Post_WithText(scriptText, n)
     ELSE Post_Answer(ErrorResponse("500"))

\* The oracle call of chunk i settles: the rest of the loop body, and
\* either the next call or the rest of the handler.
Post_OracleAnswer(v, d) ==
  /\ UNCHANGED notPostVars
  /\ qPc = "oracle"
  /\ qVerdicts' = Append(qVerdicts, v)
  /\ IF v = "throw" \/ (v = "data" /\ Post_BodyThrows(d))
     THEN \* the outer catch
          /\ qResponse' = ErrorResponse("500")
          /\ qPc' = "responded"
          /\ isScriptDetected' = (isScriptDetected \/ v = "data")
          /\ UNCHANGED <<qIndex, qAllScenes, allCharacters, errorMessage>>
     ELSE /\ errorMessage' = IF v = "non_script" /\ qIndex = 0
                             THEN "fromOracle" ELSE errorMessage
          /\ isScriptDetected' = (isScriptDetected \/ v = "data")
          /\ allCharacters' = IF v = "data"
                               THEN mergeCharacters(allCharacters, d.characters[1])
                               ELSE allCharacters
          /\ qAllScenes' = IF v = "data" THEN qAllScenes \o d.scenes ELSE qAllScenes
          /\ qIndex' = qIndex + 1
          /\ IF qIndex + 1 < qTotal
             THEN UNCHANGED <<qPc, qResponse>>
             ELSE /\ qResponse' = Post_Finish(isScriptDetected', errorMessage',
                                                  qAllScenes', allCharacters')
                  /\ qPc' = "responded"
  /\ UNCHANGED qTotal

PostNext ==
  \/ \E b \in RequestBodies, s \in TextKinds, n \in Post_ChunkCounts : POST(b, s, n)
  \/ \E ok \in BOOLEAN, s \in TextKinds, n \in Post_ChunkCounts : Post_FileParsed(ok, s, n)
  \/ \E v \in OracleVerdicts, d \in Payloads : Post_OracleAnswer(v, d)

(***************************************************************************)
(* The segmenters: splitTextIntoChunks of the page (with overlap), of the  *)
(* sequential page, and of the server.  A text is a sequence of            *)
(* characters.                                                             *)
(***************************************************************************)
\* an ordinary character, the line feed, a scene mark of the class
\* [◯○◎●〇] (written "o") and a digit
Alphabet == {"a", "\n", "o", "1"}
SceneMarks == {"o"}
Digits == {"1"}

Texts == UNION {[1..n -> Alphabet] : n \in 1..MaxTextLen}

Splitters == {"page", "sequential", "server"}

Min(a, b) == IF a < b THEN a ELSE b
Max(a, b) == IF a < b THEN b ELSE a

\* String.prototype.slice(start, end) with 0 <= end <= length: a negative
\* start counts from the end of the string
Slice(s, start, end) ==
  LET from == IF start < 0 THEN Max(Len(s) + start, 0) ELSE Min(start, Len(s))
  IN IF from >= end THEN <<>> ELSE SubSeq(s, from + 1, end)

\* the lookahead of scenePatterns matches before the character at index p
\* (counted from 1): a line feed, whitespace, a scene mark, whitespace and a
\* digit.  The other alternatives need characters the alphabet lacks.
ScenePatternAt(s, p) ==
  /\ s[p] = "\n"
  /\ \E q \in (p + 1)..Len(s) :
       /\ \A k \in (p + 1)..(q - 1) : s[k] \in Whitespace
       /\ s[q] \in SceneMarks
       /\ \E r \in (q + 1)..Len(s) :
            /\ \A k \in (q + 1)..(r - 1) : s[k] \in Whitespace
            /\ s[r] \in Digits

\* text.split(scenePatterns): the pieces between the places where the
\* lookahead matches; an empty match at the start of the text does not split
RECURSIVE SplitFrom(_, _, _)
SplitFrom(s, from, p) ==
  IF p > Len(s) THEN <<SubSeq(s, from, Len(s))>>
  ELSE IF p > from /\ ScenePatternAt(s, p)
  THEN <<SubSeq(s, from, p - 1)>> \o SplitFrom(s, p, p + 1)
  ELSE SplitFrom(s, from, p + 1)

\* .filter(s => s.trim())
RECURSIVE FilterBlank(_)
FilterBlank(pieces) ==
  IF pieces = <<>> THEN <<>>
  ELSE IF Trim(Head(pieces)) = <<>> THEN FilterBlank(Tail(pieces))
  ELSE <<Head(pieces)>> \o FilterBlank(Tail(pieces))

\* chunk.split('\n')
RECURSIVE SplitLines(_, _)
SplitLines(s, line) ==
  IF s = <<>> THEN <<line>>
  ELSE IF Head(s) = "\n" THEN <<line>> \o SplitLines(Tail(s), <<>>)
  ELSE SplitLines(Tail(s), Append(line, Head(s)))

\* the loop "for (const scene of scenes)" (and "for (const line of lines)")
\* with the push that follows it: pieces are gathered into the current
\* chunk behind a line feed until the next piece would pass maxChunkSize
RECURSIVE Gather(_, _, _, _)
Gather(pieces, currentChunk, out, maxChunkSize) ==
  IF pieces = <<>>
  THEN IF Trim(currentChunk) # <<>> THEN Append(out, Trim(currentChunk)) ELSE out
  ELSE IF Len(currentChunk \o Head(pieces)) > maxChunkSize /\ Len(currentChunk) > 0
  THEN Gather(Tail(pieces), Head(pieces), Append(out, Trim(currentChunk)), maxChunkSize)
  ELSE Gather(Tail(pieces), currentChunk \o <<"\n">> \o Head(pieces), out, maxChunkSize)

\* the second loop: a chunk longer than maxChunkSize is cut again by lines
RECURSIVE Recut(_, _)
Recut(cs, maxChunkSize) ==
  IF cs = <<>> THEN <<>>
  ELSE (IF Len(Head(cs)) > maxChunkSize
        THEN Gather(SplitLines(Head(cs), <<>>), <<>>, <<>>, maxChunkSize)
        ELSE <<Head(cs)>>)
       \o Recut(Tail(cs), maxChunkSize)

\* splitTextIntoChunks of the server
Server_splitTextIntoChunks(s, maxChunkSize) ==
  LET scenes == FilterBlank(SplitFrom(s, 1, 1))
      finalChunks == Recut(Gather(scenes, <<>>, <<>>, maxChunkSize), maxChunkSize)
  IN IF Len(finalChunks) > 0 THEN finalChunks ELSE <<s>>

\* before a call of splitTextIntoChunks
SplitIdle ==
  /\ splitter = "page"
  /\ text = <<>>
  /\ chunkSize = 1
  /\ overlap = 0
  /\ position = 0
  /\ chunks = <<>>
  /\ splitPc = "idle"

\* a call of one of the three functions on a non-empty text; the two that
\* take no overlap are called with none
SplitInit ==
  /\ splitter \in Splitters
  /\ text \in Texts
  /\ chunkSize \in 1..MaxChunkSize
  /\ overlap \in (IF splitter = "page" THEN 0..MaxOverlap ELSE {0})
  /\ position = 0
  /\ chunks = <<>>
  /\ splitPc = "running"

\* the page's loop, one pass: push the slice, step back by the overlap, and
\* leave the loop only when the new position is at the end of the text
Page_SplitPass ==
  /\ UNCHANGED notSplitVars
  /\ splitter = "page"
  /\ splitPc = "running"
  /\ Len(chunks) < MaxSplitPasses
  /\ LET end == Min(position + chunkSize, Len(text))
     IN /\ chunks' = Append(chunks, Slice(text, position, end))
        /\ position' = end - overlap
        /\ splitPc' = IF end - overlap >= Len(text) THEN "returned" ELSE "running"
  /\ UNCHANGED <<splitter, text, chunkSize, overlap>>

\* the sequential page's loop, one pass
Seq_SplitPass ==
  /\ UNCHANGED notSplitVars
  /\ splitter = "sequential"
  /\ splitPc = "running"
  /\ LET end == Min(position + chunkSize, Len(text))
     IN /\ chunks' = Append(chunks, Slice(text, position, end))
        /\ position' = end
        /\ splitPc' = IF end < Len(text) THEN "running" ELSE "returned"
  /\ UNCHANGED <<splitter, text, chunkSize, overlap>>

\* the server's function, from call to return
Server_Split ==
  /\ UNCHANGED notSplitVars
  /\ splitter = "server"
  /\ splitPc = "running"
  /\ chunks' = Server_splitTextIntoChunks(text, chunkSize)
  /\ splitPc' = "returned"
  /\ UNCHANGED <<splitter, text, chunkSize, overlap, position>>

SplitNext ==
  \/ Page_SplitPass
  \/ Seq_SplitPass
  \/ Server_Split

\* a caller calls one of the three functions, as in SplitInit
SplitCall ==
  /\ UNCHANGED notSplitVars
  /\ splitPc = "idle"
  /\ splitter' \in Splitters
  /\ text' \in Texts
  /\ chunkSize' \in 1..MaxChunkSize
  /\ overlap' \in (IF splitter' = "page" THEN 0..MaxOverlap ELSE {0})
  /\ position' = 0
  /\ chunks' = <<>>
  /\ splitPc' = "running"

SplitLiveNext ==
  \/ SplitCall
  \/ SplitNext

(***************************************************************************)
(* The merge step on its own: the part of performDetailedExtraction after  *)
(* the batch loop, called on a list of results.                            *)
(***************************************************************************)
\* variants of the scene with key (1, 1): one of the same content length as
\* SceneB from a record without a characters list, and one without content
SceneD == [episode |-> 1, scene_number |-> 1, content |-> 2, location |-> "D",
           characters |-> <<>>]
SceneE == [episode |-> 1, scene_number |-> 1, content |-> -1, location |-> "E",
           characters |-> <<<<Name_T2>>>>]
\* a scene of episode 2
SceneF == [episode |-> 2, scene_number |-> 1, content |-> 1, location |-> "F",
           characters |-> <<<<Name_T1Spaced>>>>]
\* scenes whose scene_number is the label "B" and the label "A"
SceneG == [episode |-> 1, scene_number |-> -2, content |-> 1, location |-> "G",
           characters |-> <<<<Name_T>>>>]
SceneH == [episode |-> 1, scene_number |-> -1, content |-> 1, location |-> "H",
           characters |-> <<<<Name_S>>>>]

\* the bodies the merge is called on; in the last one the characters list
\* of the body lacks a name that one of its scenes lists
MergePayloads ==
  Payloads \cup
  { [shape |-> "list", scenes |-> <<SceneD>>, characters |-> <<>>],
    [shape |-> "list", scenes |-> <<SceneE>>, characters |-> <<<<Name_T2, Name_T>>>>],
    [shape |-> "list", scenes |-> <<SceneF>>, characters |-> <<<<Name_T1Spaced>>>>],
    [shape |-> "list", scenes |-> <<SceneG, SceneH>>,
     characters |-> <<<<Name_T>>>>] }

\* the result lists: one entry per chunk that succeeded, in arrival order
ResultLists ==
  UNION { {[i \in 1..n |-> [chunk |-> i - 1, data |-> ds[i]]] :
             ds \in [1..n -> MergePayloads]} : n \in 1..MaxResults }

Mergers == {"page", "sequential", "server"}

\* before a call of the merge
MergeIdle ==
  /\ merger = "page"
  /\ mResults = <<>>
  /\ mTable = <<>>
  /\ mPc = "idle"

\* a call of the merge on a list of results
MergeInit ==
  /\ merger \in Mergers
  /\ mResults \in ResultLists
  /\ mTable = <<>>
  /\ mPc = "called"

\* the page's merge, from the scenesMap to the return
Page_Merge ==
  /\ UNCHANGED notMergeVars
  /\ merger = "page"
  /\ mPc = "called"
  /\ IF MergeThrows(mResults)
     THEN /\ mPc' = "threw"
          /\ UNCHANGED mTable
     ELSE /\ \E table \in MergeOutcomes(mResults) : mTable' = <<table>>
          /\ mPc' = "returned"
  /\ UNCHANGED <<merger, mResults>>

\* the scenes the sequential page has gathered from the bodies ds
RECURSIVE Seq_Gathered(_, _)
Seq_Gathered(allScenes, ds) ==
  IF ds = <<>> THEN allScenes
  ELSE Seq_Gathered(Seq_PushScenes(allScenes, "data", Head(ds)), Tail(ds))

\* the sequential page's merge: the part of processTextSequentially after
\* its loop, on the scenes gathered from the results
Seq_Merge ==
  /\ UNCHANGED notMergeVars
  /\ merger = "sequential"
  /\ mPc = "called"
  /\ mTable' = <<Seq_Table(Seq_Gathered(<<>>, [i \in 1..Len(mResults) |-> mResults[i].data]))>>
  /\ mPc' = "returned"
  /\ UNCHANGED <<merger, mResults>>

\* the server's allCharacters and allScenes after the bodies ds
RECURSIVE Post_Roster(_, _)
Post_Roster(roster, ds) ==
  IF ds = <<>> THEN roster
  ELSE Post_Roster(mergeCharacters(roster, Head(ds).characters[1]), Tail(ds))

RECURSIVE Post_Gathered(_, _)
Post_Gathered(allScenes, ds) ==
  IF ds = <<>> THEN allScenes
  ELSE Post_Gathered(allScenes \o Head(ds).scenes, Tail(ds))

\* the server's merge: what its loop gathers from the results when each is
\* the data of a chunk, and the part of POST after the loop
Server_Merge ==
  /\ UNCHANGED notMergeVars
  /\ merger = "server"
  /\ mPc = "called"
  /\ LET ds == [i \in 1..Len(mResults) |-> mResults[i].data]
     IN IF \/ \E i \in 1..Len(ds) : Post_BodyThrows(ds[i])
           \/ Post_MapThrows(Post_Gathered(<<>>, ds))
        THEN /\ mPc' = "threw"
             /\ UNCHANGED mTable
        ELSE /\ mTable' = <<[characters |-> Post_Roster(<<>>, ds),
                             scenes |-> Post_Finish(TRUE, "", Post_Gathered(<<>>, ds),
                                                    Post_Roster(<<>>, ds)).scenes]>>
             /\ mPc' = "returned"
  /\ UNCHANGED <<merger, mResults>>

MergeNext ==
  \/ Page_Merge
  \/ Seq_Merge
  \/ Server_Merge

(***************************************************************************)
(* The normalizers of the single-call endpoint: determineDN and            *)
(* truncateContent.  The characters of a time of day are written in        *)
(* letters: "n" for 夜, "s" for 深, "m" for 朝, "h" for 昼, "y" for 夕, "k" for   *)
(* 方, "g" for 午, "z" for 前, "b" for 後, and "X" for a capital letter.       *)
(***************************************************************************)
TimeAlphabet == {"n", "s", "m", "h", "y", "k", "g", "z", "b", "X"}
ContentAlphabet == {"a", "b"}

\* the keywords of the two tests
NightKeywords == {<<"n">>, <<"s", "n">>}
DayKeywords == {<<"m">>, <<"h">>, <<"y">>, <<"y", "k">>, <<"g", "z">>, <<"g", "b">>}

\* String.prototype.toLowerCase()
ToLowerCase(s) == [i \in 1..Len(s) |-> IF s[i] = "X" THEN "x" ELSE s[i]]

\* String.prototype.includes(keyword)
Includes(s, keyword) ==
  \E i \in 0..(Len(s) - Len(keyword)) : SubSeq(s, i + 1, i + Len(keyword)) = keyword

\* determineDN that tests the day keywords first
determineDN_DayFirst(timeOfDay) ==
  IF timeOfDay = <<>> THEN <<>>
  ELSE LET normalized == ToLowerCase(timeOfDay)
       IN IF \E keyword \in DayKeywords : Includes(normalized, keyword) THEN <<"D">>
          ELSE IF \E keyword \in NightKeywords : Includes(normalized, keyword) THEN <<"N">>
          ELSE <<>>

determineDN(timeOfDay) ==
  IF timeOfDay = <<>> THEN <<>>
  ELSE LET normalized == ToLowerCase(timeOfDay)
       IN IF \E keyword \in NightKeywords : Includes(normalized, keyword) THEN <<"N">>
          ELSE IF \E keyword \in DayKeywords : Includes(normalized, keyword) THEN <<"D">>
          ELSE <<>>

Ellipsis == <<".", ".", ".">>

\* truncateContent that also cuts a content of exactly maxLength characters
truncateContent_CutsAtCap(content, maxLength) ==
  IF content = <<>> THEN <<>>
  ELSE IF Len(content) < maxLength THEN content
  ELSE Slice(content, 0, Min(maxLength, Len(content))) \o Ellipsis

truncateContent(content, maxLength) ==
  IF content = <<>> THEN <<>>
  ELSE IF Len(content) <= maxLength THEN content
  ELSE Slice(content, 0, Min(maxLength, Len(content))) \o Ellipsis

StringsOver(alphabet, maxLen) == UNION {[1..n -> alphabet] : n \in 0..maxLen}

\* before a call
NormIdle ==
  /\ nFunction = "determineDN"
  /\ nText = <<>>
  /\ nMaxLength = 0
  /\ nResult = <<>>
  /\ nPc = "idle"

\* a call of determineDN on a time of day, or of truncateContent on a
\* content and a cap
NormInit ==
  /\ nFunction \in {"determineDN", "truncateContent"}
  /\ IF nFunction = "determineDN"
     THEN /\ nText \in StringsOver(TimeAlphabet, MaxTimeLen)
          /\ nMaxLength = 0
     ELSE /\ nText \in StringsOver(ContentAlphabet, MaxContentLen)
          /\ nMaxLength \in 0..MaxCap
  /\ nResult = <<>>
  /\ nPc = "called"

Call_determineDN ==
  /\ UNCHANGED notNormVars
  /\ nFunction = "determineDN"
  /\ nPc = "called"
  /\ nResult' = determineDN(nText)
  /\ nPc' = "returned"
  /\ UNCHANGED <<nFunction, nText, nMaxLength>>

Call_truncateContent ==
  /\ UNCHANGED notNormVars
  /\ nFunction = "truncateContent"
  /\ nPc = "called"
  /\ nResult' = truncateContent(nText, nMaxLength)
  /\ nPc' = "returned"
  /\ UNCHANGED <<nFunction, nText, nMaxLength>>

NormNext ==
  \/ Call_determineDN
  \/ Call_truncateContent

(***************************************************************************)
(* The specifications.                                                     *)
(***************************************************************************)
Init == PageInit /\ SeqInit /\ PostInit /\ SplitIdle /\ MergeIdle /\ NormIdle

\* the page with prescan and batched extraction
Spec == Init /\ [][Next]_vars

\* the sequential page
SeqSpec == Init /\ [][SeqNext]_vars

\* one run of the page under fair scheduling
RunLiveSpec == Init /\ [][RunNext]_vars /\ RunFairness

\* the server's POST
PostSpec == Init /\ [][PostNext]_vars

\* the segmenters, called on each text, chunk size and overlap of the bounds
SplitStart == PageInit /\ SeqInit /\ PostInit /\ SplitInit /\ MergeIdle /\ NormIdle

SplitSpec == SplitStart /\ [][SplitNext]_vars

\* the segmenters under the scheduling of a JavaScript call: a loop that can
\* take its next pass takes it
SplitLiveSpec ==
  Init /\ [][SplitLiveNext]_vars /\ WF_vars(Page_SplitPass) /\ WF_vars(Seq_SplitPass)

\* the merge step, called on each result list of the bounds
MergeStart == PageInit /\ SeqInit /\ PostInit /\ SplitIdle /\ MergeInit /\ NormIdle

MergeSpec == MergeStart /\ [][MergeNext]_vars

\* the normalizers, called on each string of the bounds
NormStart == PageInit /\ SeqInit /\ PostInit /\ SplitIdle /\ MergeIdle /\ NormInit

NormSpec == NormStart /\ [][NormNext]_vars

(***************************************************************************)
(* Properties of the page.                                                 *)
(***************************************************************************)
Succeeded == {c \in Chunks : st[c] = "succeeded"}
Exhausted == {c \in Chunks : st[c] = "exhausted"}
InProgress == {c \in Chunks : st[c] \in {"attempting", "retrying"}}
ListChunks == {c \in Chunks : c < totalChunks}

\* performDetailedExtraction has returned or thrown into handleSubmit
ExtractionOver == pc = "returned" /\ PreScanPasses(prescan)

\* the rows the scenes of the results of the successful chunks can give
RowsOfResults ==
  UNION { {ProcessedScene(Normalized(results[i].data.scenes[j]),
                          SortStrings(AllCharacters(results))) :
             j \in 1..Len(results[i].data.scenes)} :
          i \in {k \in 1..Len(results) : results[k].chunk \in Succeeded} }

TableRows(table) == {table.scenes[i] : i \in 1..Len(table.scenes)}

\* C1: when performDetailedExtraction is over a chunk list of which at
\* least one chunk succeeded and every other chunk exhausted its retries,
\* the call has returned a table (it has not thrown), the last progress
\* update is current = N with total = N, and every scene of the table comes
\* from a result of a chunk that succeeded.
C1_PartialFailureReturnsTable ==
  (ExtractionOver /\ Succeeded # {} /\ Succeeded \cup Exhausted = ListChunks)
    => /\ matrixData # <<>>
       /\ processingStep = "complete"
       /\ progress = [current |-> totalChunks, total |-> totalChunks]
       /\ TableRows(matrixData[1]) \subseteq RowsOfResults

\* the case of C1: a run over at least two chunks, one succeeded and one
\* exhausted, that ended in the TypeError of the merge
C1_Case ==
  /\ ExtractionOver
  /\ Succeeded # {}
  /\ Exhausted # {}
  /\ error = "typeError"

\* C2: when performDetailedExtraction is over, the aggregate error is
\* reported if and only if no chunk produced a result; when a chunk
\* succeeded, the results handed to the merge are exactly one result per
\* successful chunk, and the run ends with the merge of these results (its
\* table, or the error it throws).
C2_AggregateErrorIffNoResult ==
  ExtractionOver =>
    /\ (error = "allFailed") <=> (Succeeded = {})
    /\ Len(results) = Cardinality(Succeeded)
    /\ {results[i].chunk : i \in 1..Len(results)} = Succeeded
    /\ Succeeded # {} =>
         IF MergeThrows(results)
         THEN matrixData = <<>> /\ error = "typeError"
         ELSE matrixData = <<MergeResults(results)>>

\* a run with successful and failed chunks that stored the merged table
C2_Witness ==
  /\ ExtractionOver
  /\ Succeeded # {}
  /\ Exhausted # {}
  /\ matrixData = <<MergeResults(results)>>

\* C4 as stated: when a run of handleSubmit finishes, either matrixData is
\* set, processingStep is 'complete' and error is empty, or matrixData is
\* null, processingStep is 'idle' and exactly one of error and
\* passwordError is non-empty.
C4_OneOutcomeAsStated ==
  pc = "returned" =>
    \/ matrixData # <<>> /\ processingStep = "complete" /\ error = ""
    \/ /\ matrixData = <<>>
       /\ processingStep = "idle"
       /\ (error # "") # (passwordError # "")

\* C4 as amended: when a run of handleSubmit finishes, either matrixData is
\* set and processingStep is 'complete', error holding no message of the
\* run (it is empty, or the file-type message handleFileChange set while the
\* run was in progress), or matrixData is null, processingStep is 'idle' and
\* at least one of error and passwordError is non-empty.
C4_OneOutcome ==
  pc = "returned" =>
    \/ /\ matrixData # <<>>
       /\ processingStep = "complete"
       /\ error \in {"", "fileType"}
    \/ /\ matrixData = <<>>
       /\ processingStep = "idle"
       /\ (error # "" \/ passwordError # "")

\* a run refused for its password after a run that failed: both messages
C4_Witness ==
  /\ pc = "returned"
  /\ matrixData = <<>>
  /\ passwordError # ""
  /\ error = "allFailed"

\* C6: during performDetailedExtraction the progress counter equals the
\* number of settled chunks and never exceeds total; a step never decreases
\* it and raises it by exactly one when a chunk settles; once all batches
\* have completed it equals the number of chunks.
C6_ProgressCounter ==
  /\ [](pc = "extracting" \/ ExtractionOver =>
          /\ progress.total = totalChunks
          /\ progress.current = Cardinality(Succeeded \cup Exhausted)
          /\ progress.current <= progress.total
          /\ ExtractionOver => progress.current = totalChunks)
  /\ [][pc = "extracting" =>
          /\ progress'.current >= progress.current
          /\ (Succeeded' \cup Exhausted' # Succeeded \cup Exhausted) =>
               progress'.current = progress.current + 1]_vars

\* two batches done, with a failed chunk, and the counter at the total
C6_Witness ==
  /\ ExtractionOver
  /\ totalChunks > BATCH_SIZE
  /\ Exhausted # {}
  /\ Succeeded # {}
  /\ progress.current = totalChunks

C8_AtMostThreeInProgress == Cardinality(InProgress) <= 3

\* three chunks in progress, one of them in a backoff wait
C8_Witness ==
  /\ Cardinality(InProgress) = 3
  /\ \E c \in Chunks : st[c] = "retrying"

\* C9: a chunk has a request issued only in a run whose prescan request
\* came back as data with is_script true; a run whose prescan came back
\* non-script or with another failure has ended with an error message, no
\* table and no extract request.
C9_PrescanGate ==
  /\ (\E c \in Chunks : st[c] # "none") => prescan = "data"
  /\ (pc # "prescan" /\ prescan \in FailureKinds) =>
        /\ pc = "returned"
        /\ error \in {"notScript", "prescanError"}
        /\ processingStep = "idle"
        /\ matrixData = <<>>
        /\ \A c \in Chunks : st[c] = "none" /\ attempt[c] = 0

\* a run that ended at a prescan classified non-script
C9_Witness ==
  /\ pc = "returned"
  /\ prescan = "non_script"
  /\ error = "notScript"

\* a submit of pasted text that is empty or whitespace only; in text mode
\* handleSubmit does not look at the selected file
BlankTextSubmit ==
  \E s \in {"empty", "blank"} : handleSubmit("good", "text", "txt", "none", s)

\* no chunk has been produced and no oracle call made for the run's text
NothingSentToOracle ==
  /\ totalChunks = 0
  /\ \A c \in Chunks : st[c] = "none"
  /\ ~oracleCalled

\* C11: a text that is empty or whitespace only is rejected with an error
\* before any chunk is produced and before any oracle call: a submit of such
\* a pasted text returns at once with a message and sends no request, and a
\* run that carries such a text from a txt file produces no chunk, has no
\* oracle call made for it, and ends with a message and no table.
C11_BlankTextRejected ==
  /\ [](fullText # "text"
          => /\ NothingSentToOracle
             /\ (pc = "returned" /\ prescan # "none")
                  => (error # "" /\ matrixData = <<>> /\ processingStep = "idle"))
  /\ [][(~isProcessing /\ BlankTextSubmit)
          => (error' = "noText" /\ pc' = "returned" /\ prescan' = "none"
              /\ matrixData' = <<>> /\ processingStep' = "idle"
              /\ NothingSentToOracle')]_vars

\* the case of C11: the run of a txt file that holds whitespace only has
\* had its prescan request answered
C11_Witness ==
  /\ pc = "returned"
  /\ fullText = "blank"
  /\ prescan = "http_error"
  /\ error = "prescanError"

\* the batch a chunk belongs to
BatchIndex(c) == c \div BATCH_SIZE

\* a request has been sent for the chunk
Issued(c) == st[c] \in {"attempting", "retrying", "succeeded", "exhausted"}

\* the chunk has succeeded or exhausted its retries
Settled(c) == st[c] \in {"succeeded", "exhausted"}

\* C21: batch barrier.  While a request has been issued for a chunk, every
\* chunk of every earlier batch has settled; and the step that issues the
\* first request of a chunk is taken in a state where every chunk of every
\* earlier batch has settled.
C21_BatchBarrier ==
  /\ [](\A c, d \in ListChunks :
          (Issued(c) /\ BatchIndex(d) < BatchIndex(c)) => Settled(d))
  /\ [][\A c \in Chunks :
          (st[c] = "pending" /\ st'[c] = "attempting")
            => \A d \in ListChunks : BatchIndex(d) < BatchIndex(c) => Settled(d)]_vars

\* the case of C21: a chunk of the second batch has its request out, and a
\* chunk of the first batch had exhausted its retries
C21_Witness ==
  /\ pc = "extracting"
  /\ st[BATCH_SIZE] = "attempting"
  /\ \E d \in ListChunks : BatchIndex(d) = 0 /\ st[d] = "exhausted"

\* C22: backoff.  A call that waits between attempts waits 1000 x n ms after
\* failed attempt n, whatever the failure was; each wait of a call is longer
\* than its previous one; and a failure of attempt MAX_RETRIES sets no timer:
\* the chunk is exhausted at once.
C22_Backoff ==
  /\ [](\A c \in Chunks :
          /\ st[c] = "retrying"
               => (delay[c] = 1000 * attempt[c] /\ attempt[c] < MAX_RETRIES)
          /\ st[c] = "attempting"
               => \A r \in FailureKinds :
                    AttemptOutcome(attempt[c], r)
                      = IF attempt[c] < MAX_RETRIES THEN "retry" ELSE "throw")
  /\ [][\A c \in Chunks :
          /\ (st[c] = "attempting" /\ st'[c] = "retrying")
               => (delay'[c] = 1000 * attempt[c] /\ delay'[c] > delay[c])
          /\ (st[c] = "attempting" /\ attempt[c] = MAX_RETRIES /\ st'[c] # st[c])
               => (st'[c] \in {"succeeded", "exhausted"} /\ delay'[c] = 0)]_vars

\* the case of C22: a chunk waits after its second failed attempt
C22_Witness ==
  \E c \in Chunks :
    /\ pc = "extracting"
    /\ st[c] = "retrying"
    /\ attempt[c] = 2
    /\ delay[c] = 2000

\* C28: with a finite chunk list and requests that all resolve or reject,
\* an extraction in progress leads to the return of handleSubmit with every
\* chunk of the list succeeded or exhausted, and a page that is processing
\* leads to a page that is not: processingStep is 'complete' or 'idle'.
C28_RunTerminates ==
  /\ (pc = "extracting")
       ~> (pc = "returned" /\ \A c \in ListChunks : Settled(c))
  /\ isProcessing
       ~> (pc = "returned" /\ processingStep \in {"complete", "idle"})

\* the case of C28: a run over two batches has returned with a table, after
\* a chunk of the first batch exhausted its retries
C28_Witness ==
  /\ pc = "returned"
  /\ processingStep = "complete"
  /\ totalChunks > BATCH_SIZE
  /\ \A c \in ListChunks : Settled(c)
  /\ \E c \in ListChunks : BatchIndex(c) = 0 /\ st[c] = "exhausted"

\* what performPreScan returned as characters for the response it read
ReturnedCharacters == IF prescanCharacters = <<>> THEN <<>> ELSE prescanCharacters[1]

\* C23: hint propagation.  Every chunk a request has been issued for had its
\* last request carry, as character_hints, the list the prescan of the run
\* returned; and every step that sends a request for a chunk, first attempt
\* or retry, puts that list in the body.
C23_HintPropagation ==
  /\ [](\A c \in Chunks :
          /\ Issued(c) => sentHints[c] # <<>>
          /\ sentHints[c] # <<>>
               => (PreScanPasses(prescan) /\ sentHints[c] = <<ReturnedCharacters>>))
  /\ [][\A c \in Chunks :
          attempt'[c] > attempt[c] => sentHints'[c] = <<ReturnedCharacters'>>]_vars

\* the case of C23: the prescan returned a list of two characters and a
\* chunk is at its third request
C23_Witness ==
  \E c \in Chunks :
    /\ pc = "extracting"
    /\ prescanCharacters = <<<<Name_T, Name_S>>>>
    /\ st[c] = "attempting"
    /\ attempt[c] = MAX_RETRIES
    /\ sentHints[c] = <<<<Name_T, Name_S>>>>

(***************************************************************************)
(* Properties of the sequential page.                                      *)
(***************************************************************************)
\* handleSubmit has returned from a run of processTextSequentially
Seq_PipelineOver == sPc = "returned" /\ sTotal > 0

Seq_NoChunkSucceeded == \A i \in 1..Len(sOutcome) : sOutcome[i] = "failed"

\* C3: when a run of the sequential pipeline is over and every chunk
\* request failed or was classified as non-script, no table is stored in
\* matrixData and the page shows an error.
C3_NoTableFromZeroSuccesses ==
  (Seq_PipelineOver /\ Seq_NoChunkSucceeded)
    => /\ sMatrixData = <<>>
       /\ sError # ""

\* the case of C3: a run over at least two chunks, none of which succeeded,
\* that stored a table without a scene and set no error
C3_Case ==
  /\ Seq_PipelineOver
  /\ sTotal >= 2
  /\ Seq_NoChunkSucceeded
  /\ sMatrixData = <<[characters |-> <<>>, scenes |-> <<>>]>>
  /\ sError = ""

\* C26: the progress counter of processTextSequentially counts the chunks
\* that have settled, successes and failures alike, and stands at the
\* number of chunks when the loop has ended.
C26_SeqProgress ==
  (sTotal > 0 /\ sPc \in {"chunkRequest", "returned"})
    => /\ sProgress.current = Len(sOutcome)
       /\ sProgress.total = sTotal
       /\ Seq_PipelineOver => sProgress.current = sTotal

\* the case of C26: the loop has ended on a chunk that failed, and the
\* counter stands below the number of chunks
C26_Case ==
  /\ Seq_PipelineOver
  /\ Len(sOutcome) = sTotal
  /\ sOutcome[sTotal] = "failed"
  /\ sProgress.current < sTotal

(***************************************************************************)
(* Properties of the server's POST.                                        *)
(***************************************************************************)
Post_LoopOver == qPc = "responded" /\ qVerdicts # <<>>

\* C10: when the oracle classifies chunk 0 as not-a-script the handler
\* makes no further oracle call and answers with the classification
\* failure, not with a table; and when chunk 0 is a script, a non-script
\* classification of a later chunk does not make the handler answer with
\* the classification failure.
C10_FirstChunkGate ==
  Post_LoopOver =>
    /\ qVerdicts[1] = "non_script"
         => (qResponse.kind = "not_script" /\ Len(qVerdicts) = 1)
    /\ (qVerdicts[1] = "data" /\ \E i \in 2..Len(qVerdicts) : qVerdicts[i] = "non_script")
         => qResponse.kind # "not_script"

\* the case of C10: chunk 0 was classified as not-a-script, a later chunk
\* as a script, and the handler answered with a table of that chunk's scenes
C10_Case ==
  /\ Post_LoopOver
  /\ qVerdicts[1] = "non_script"
  /\ qResponse.kind = "table"
  /\ qResponse.scenes # <<>>

\* the oracle failures of a chunk: the call rejects, the completion has no
\* content, the content does not parse
OracleFailures == {"throw", "empty", "unparsable"}

\* C25: an oracle failure on a chunk is recovered locally.  The handler
\* does not answer on such a failure while chunks remain; and when the loop
\* has run over every chunk and some chunk succeeded with scenes the table
\* can be built from, the answer is the table of every scene the chunks
\* that succeeded returned.
C25_ChunkFailureRecovered ==
  Post_LoopOver =>
    /\ qVerdicts[Len(qVerdicts)] \in OracleFailures => Len(qVerdicts) = qTotal
    /\ ( /\ \E i \in 1..Len(qVerdicts) : qVerdicts[i] \in OracleFailures
         /\ \E i \in 1..Len(qVerdicts) : qVerdicts[i] = "data"
         /\ ~Post_MapThrows(qAllScenes) )
         => (qResponse.kind = "table" /\ Len(qResponse.scenes) = Len(qAllScenes))

\* the case of C25: the first chunk succeeded, the oracle call of the
\* second rejected, and the handler answered 500 with a chunk still to go
C25_Case ==
  /\ Post_LoopOver
  /\ qVerdicts = <<"data", "throw">>
  /\ qAllScenes # <<>>
  /\ Len(qVerdicts) < qTotal
  /\ qResponse = ErrorResponse("500")

(***************************************************************************)
(* Properties of the segmenters.                                           *)
(***************************************************************************)
\* the chunks put together, each but the first without its first n characters
RECURSIVE Reconstruct(_, _, _)
Reconstruct(cs, n, first) ==
  IF cs = <<>> THEN <<>>
  ELSE (IF first THEN Head(cs) ELSE SubSeq(Head(cs), n + 1, Len(Head(cs))))
       \o Reconstruct(Tail(cs), n, FALSE)

\* C5: when splitTextIntoChunks has returned for a non-empty text, its
\* chunks, put together without the first overlap characters of every chunk
\* but the first, are the text; and it returns: the call is not still in
\* its loop after more passes than the text has characters.
C5_Reconstruction ==
  /\ splitPc = "returned" => Reconstruct(chunks, overlap, TRUE) = text
  /\ splitPc = "running" => Len(chunks) <= Len(text)

\* the case of C5: the server's function returned chunks that do not give
\* the text back
C5_Case ==
  /\ splitter = "server"
  /\ splitPc = "returned"
  /\ Reconstruct(chunks, overlap, TRUE) # text

\* the lines of a text
LinesOf(s) == SplitLines(s, <<>>)

\* C24: every chunk of a segmenter is at most maxChunkSize long, while it
\* gathers chunks and when it has returned, whatever the lengths of the
\* scenes and of the lines of the text.
C24_ChunkLengthBound ==
  \A i \in 1..Len(chunks) : Len(chunks[i]) <= chunkSize

\* the case of C24: the server's function has returned, for a text with a
\* line longer than maxChunkSize, a chunk longer than maxChunkSize
C24_Case ==
  /\ splitter = "server"
  /\ splitPc = "returned"
  /\ \E k \in 1..Len(LinesOf(text)) : Len(LinesOf(text)[k]) > chunkSize
  /\ \E i \in 1..Len(chunks) : Len(chunks[i]) > chunkSize

\* C27: the page's splitTextIntoChunks returns for every non-empty text
\* and every overlap with 0 <= overlap < chunkSize.
C27_SplitTerminates ==
  (splitter = "page" /\ splitPc = "running" /\ overlap < chunkSize)
    ~> (splitPc = "returned")

\* the case of C27: with 0 < overlap < chunkSize the loop has pushed the
\* tail of the text and stands, still running, where it stood one pass
\* before: at Len(text) - overlap, about to push the same tail again
C27_Case ==
  /\ splitter = "page"
  /\ 0 < overlap /\ overlap < chunkSize
  /\ splitPc = "running"
  /\ Len(chunks) >= 2
  /\ position = Len(text) - overlap
  /\ chunks[Len(chunks)] = Slice(text, position, Len(text))
  /\ chunks[Len(chunks) - 1] = chunks[Len(chunks)]

(***************************************************************************)
(* Properties of the merge step.                                           *)
(***************************************************************************)
\* every raw scene of the results handed to the merge
RawScenes(rs) ==
  UNION { {rs[i].data.scenes[j] : j \in 1..Len(rs[i].data.scenes)} : i \in 1..Len(rs) }

\* the label the table shows for a scene
LabelOf(scene) ==
  IF EpisodeOf(scene) > 1 THEN <<EpisodeOf(scene), scene.scene_number>>
  ELSE <<scene.scene_number>>

\* the variants of the key of scene among the raw scenes
VariantsOf(scene, rs) == {v \in RawScenes(rs) : SceneKey(v) = SceneKey(scene)}

\* the rows of the table with the label of scene
RowsOf(table, scene) ==
  {i \in 1..Len(table.scenes) : table.scenes[i].scene = LabelOf(scene)}

\* C12: the table the page's merge returns holds, for every key (episode,
\* scene_number) of the results, exactly one scene, and that scene is a
\* variant of the key no other variant of which has a longer content, a
\* variant without a content field counting as shorter than any content.
C12_SceneDedup ==
  (merger = "page" /\ mPc = "returned") =>
    \A scene \in RawScenes(mResults) :
      /\ Cardinality(RowsOf(mTable[1], scene)) = 1
      /\ \A i \in RowsOf(mTable[1], scene) :
           \E v \in VariantsOf(scene, mResults) :
             /\ mTable[1].scenes[i]
                  = ProcessedScene(Normalized(v), mTable[1].characters)
             /\ \A w \in VariantsOf(scene, mResults) : w.content <= v.content

\* the case of C12: the table holds a scene without content for a key of
\* which the results hold a variant with content
C12_Case ==
  /\ merger = "page"
  /\ mPc = "returned"
  /\ \E scene \in RawScenes(mResults) :
       /\ scene.content > 0
       /\ \E i \in RowsOf(mTable[1], scene) : mTable[1].scenes[i].content = -1

\* every result of rs twice over: the list after itself, and each result
\* followed by itself
Twice(rs) == rs \o rs

EachTwice(rs) == [i \in 1..(2 * Len(rs)) |-> rs[(i + 1) \div 2]]

\* C13: merging a list of results in which every result appears twice gives
\* what merging the list gives: the same tables (roster, scenes and
\* characters maps) when the merge returns, and a throw when it throws.  The
\* sets of tables are compared when the merge is called on the list; the
\* table it returns, or its throw, when it has returned or thrown.
C13_MergerIdempotence ==
  /\ (merger = "page" /\ mPc \in {"returned", "threw"}) =>
       /\ MergeThrows(Twice(mResults)) = (mPc = "threw")
       /\ MergeThrows(EachTwice(mResults)) = (mPc = "threw")
       /\ mPc = "returned" => mTable[1] \in MergeOutcomes(Twice(mResults))
  /\ (merger = "page" /\ mPc = "called" /\ ~MergeThrows(mResults)) =>
       LET once == MergeOutcomes(mResults)
       IN /\ MergeOutcomes(Twice(mResults)) = once
          /\ MergeOutcomes(EachTwice(mResults)) = once

\* the case of C13: the merge has returned a table for results that hold
\* two variants of one key, of which the later replaced the earlier
C13_Witness ==
  /\ merger = "page"
  /\ mPc = "returned"
  /\ Len(mResults) >= 2
  /\ \E i \in 1..Len(mTable[1].scenes) :
       /\ mTable[1].scenes[i].location = "B"
       /\ SceneA \in RawScenes(mResults)

\* C14: the table does not depend on the order in which the results were
\* appended: the merge of every reordering of the list of results returns
\* what the merge of the list returns.
C14_OrderIndependence ==
  (merger = "page" /\ mPc = "returned") =>
    \A reordered \in Reorderings(mResults) :
      MergeOutcomes(reordered) = MergeOutcomes(mResults)

\* the case of C14: the results hold two variants of key (1, 1) of equal
\* content length and no other, the table shows the one that arrived first,
\* and the merge of the results in another order returns no table that the
\* merge in this order returns
C14_Case ==
  /\ merger = "page"
  /\ mPc = "returned"
  /\ VariantsOf(SceneB, mResults) = {SceneB, SceneD}
  /\ \E i \in RowsOf(mTable[1], SceneB) : mTable[1].scenes[i].location = "D"
  /\ \E reordered \in Reorderings(mResults) :
       MergeOutcomes(reordered) \cap MergeOutcomes(mResults) = {}

\* the episode and the scene number a row of the table shows
RowEpisode(row) == IF Len(row.scene) = 2 THEN row.scene[1] ELSE 1

RowNumber(row) == row.scene[Len(row.scene)]

\* the order of scene numbers: numbers by value, labels that are not
\* numbers as strings ("A" before "B"), and a number, which begins with a
\* digit, before such a label
NumberBefore(m, n) ==
  IF IsNumeric(m) /\ IsNumeric(n) THEN m < n
  ELSE IF IsNumeric(m) THEN TRUE
  ELSE IF IsNumeric(n) THEN FALSE
  ELSE m > n

\* C15: the scenes of the table the page's merge returns are in ascending
\* order of episode and, within an episode, of scene number, numbers
\* compared by value and other labels as strings.
C15_ScenesSorted ==
  (merger = "page" /\ mPc = "returned") =>
    \A i, j \in 1..Len(mTable[1].scenes) :
      i < j =>
        LET a == mTable[1].scenes[i]
            b == mTable[1].scenes[j]
        IN \/ RowEpisode(a) < RowEpisode(b)
           \/ /\ RowEpisode(a) = RowEpisode(b)
              /\ NumberBefore(RowNumber(a), RowNumber(b))

\* the case of C15: the scenes of the table are those labelled "B" and "A"
\* of one episode, in this order
C15_Case ==
  /\ merger = "page"
  /\ mPc = "returned"
  /\ Len(mTable[1].scenes) = 2
  /\ mTable[1].scenes[1].scene = <<-2>>
  /\ mTable[1].scenes[2].scene = <<-1>>

\* the canonical key of a raw name: its base name, and its age when it
\* carries one
CanonicalKey(char) == extractCharacterWithAge(char)

\* the entries of the roster of a table
RosterOf(table) == {table.characters[i] : i \in 1..Len(table.characters)}

\* C16: the roster of the table merged by the page or by the server is
\* sorted without duplicates and holds exactly one entry for each canonical
\* key among the raw names of the characters lists of the results: two raw
\* names of one key share an entry, and names of different keys (a name
\* without age, the name with an age, the name with another age) do not.
C16_Roster ==
  (merger \in {"page", "server"} /\ mPc = "returned") =>
    LET keys == {CanonicalKey(char) : char \in AllCharacters(mResults)}
    IN /\ \A i \in 1..(Len(mTable[1].characters) - 1) :
            StringBefore(mTable[1].characters[i], mTable[1].characters[i + 1])
       /\ \A entry \in RosterOf(mTable[1]) : CanonicalKey(entry) \in keys
       /\ \A key \in keys :
            Cardinality({entry \in RosterOf(mTable[1]) : CanonicalKey(entry) = key}) = 1

\* the case of C16: the page's roster holds two entries of one canonical
\* key, the name with its age written with and without a space
C16_Case ==
  /\ merger = "page"
  /\ mPc = "returned"
  /\ {Name_T1, Name_T1Spaced} \subseteq RosterOf(mTable[1])

\* C17: in every table a merge returns, the characters map of every scene
\* has an entry for each roster character and for nothing else, and every
\* entry is true or false.
C17_PresenceComplete ==
  mPc = "returned" =>
    \A i \in 1..Len(mTable[1].scenes) :
      /\ DOMAIN mTable[1].scenes[i].characters = RosterOf(mTable[1])
      /\ \A char \in RosterOf(mTable[1]) :
           mTable[1].scenes[i].characters[char] \in {"true", "false"}

\* the case of C17: the page's table holds a scene taken from a record
\* without a characters list, and an entry of its map is undefined
C17_Case ==
  /\ merger = "page"
  /\ mPc = "returned"
  /\ \E i \in 1..Len(mTable[1].scenes) :
       /\ mTable[1].scenes[i].location = "D"
       /\ \E char \in RosterOf(mTable[1]) :
            mTable[1].scenes[i].characters[char] = "undefined"

\* the raw names of the scene record a row was made from (each record of
\* the results has a location of its own); none for a record without a list
RawNamesOfRow(row, rs) ==
  LET scene == CHOOSE v \in RawScenes(rs) : v.location = row.location
  IN IF scene.characters = <<>> THEN {}
     ELSE {scene.characters[1][j] : j \in 1..Len(scene.characters[1])}

\* C18: in the table merged by the page or by the server, the entry of a
\* roster character in a scene is true exactly when a raw name of the scene
\* has the canonical key (base name and age) of the roster character.
C18_PresenceCorrect ==
  (merger \in {"page", "server"} /\ mPc = "returned") =>
    \A i \in 1..Len(mTable[1].scenes) :
      \A char \in RosterOf(mTable[1]) :
        (mTable[1].scenes[i].characters[char] = "true")
          <=> \E raw \in RawNamesOfRow(mTable[1].scenes[i], mResults) :
                CanonicalKey(raw) = CanonicalKey(char)

\* the case of C18: a scene that lists the name with an age only shows the
\* name without age as present
C18_Case ==
  /\ merger \in {"page", "server"}
  /\ mPc = "returned"
  /\ \E i \in 1..Len(mTable[1].scenes) :
       /\ mTable[1].scenes[i].location = "E"
       /\ Name_T \in RosterOf(mTable[1])
       /\ mTable[1].scenes[i].characters[Name_T] = "true"

\* the variant v lists the roster character char: one of its raw names has
\* the canonical key of char
ListsCharacter(v, char) ==
  /\ v.characters # <<>>
  /\ \E j \in 1..Len(v.characters[1]) :
       CanonicalKey(v.characters[1][j]) = CanonicalKey(char)

\* C29: when several results hold a scene of one key, the scene of that key
\* in the table merged by the page is one of the variants taken whole (its
\* fields and its presence entries are those of that one variant), and a
\* roster character that only other variants of the key list is not marked
\* present in it.
C29_MergeReplaces ==
  (merger = "page" /\ mPc = "returned") =>
    \A scene \in RawScenes(mResults) :
      \A i \in RowsOf(mTable[1], scene) :
        \E v \in VariantsOf(scene, mResults) :
          /\ mTable[1].scenes[i]
               = ProcessedScene(Normalized(v), mTable[1].characters)
          /\ \A char \in RosterOf(mTable[1]) :
               (/\ ~ListsCharacter(v, char)
                /\ \E w \in VariantsOf(scene, mResults) \ {v} : ListsCharacter(w, char))
                 => mTable[1].scenes[i].characters[char] # "true"

\* the case of C29: the scene of key (1, 1) is the variant that lists the
\* name with an age, another variant of the key lists the name without age,
\* and the merged scene shows the name without age as present
C29_Case ==
  /\ merger = "page"
  /\ mPc = "returned"
  /\ {SceneA, SceneB} \subseteq RawScenes(mResults)
  /\ \E i \in 1..Len(mTable[1].scenes) :
       /\ mTable[1].scenes[i].location = "B"
       /\ Name_T \in RosterOf(mTable[1])
       /\ mTable[1].scenes[i].characters[Name_T] = "true"

\* the scene of every key is one of the variants of the key, taken whole
C29_TakenWhole ==
  (merger = "page" /\ mPc = "returned") =>
    \A scene \in RawScenes(mResults) :
      \A i \in RowsOf(mTable[1], scene) :
        \E v \in VariantsOf(scene, mResults) :
          mTable[1].scenes[i] = ProcessedScene(Normalized(v), mTable[1].characters)

\* the raw names the scene of a row lists, on the page and on the sequential
\* page (whose rows are the gathered scenes in order)
ListedInRow(i) ==
  IF merger = "page" THEN RawNamesOfRow(mTable[1].scenes[i], mResults)
  ELSE LET scene == Seq_Gathered(<<>>, [k \in 1..Len(mResults) |-> mResults[k].data])[i]
       IN IF scene.characters = <<>> THEN {}
          ELSE {scene.characters[1][j] : j \in 1..Len(scene.characters[1])}

\* C30: in the table merged by the page or by the sequential page, every raw
\* name that the scene of a row lists is an entry of the roster, and the
\* row's entry for it is true.
C30_RosterCoverage ==
  (merger \in {"page", "sequential"} /\ mPc = "returned") =>
    \A i \in 1..Len(mTable[1].scenes) :
      \A raw \in ListedInRow(i) :
        /\ raw \in RosterOf(mTable[1])
        /\ mTable[1].scenes[i].characters[raw] = "true"

\* the case of C30: the page's table holds the scene that lists "S", and
\* its roster has no entry "S"
C30_Case ==
  /\ merger = "page"
  /\ mPc = "returned"
  /\ \E i \in 1..Len(mTable[1].scenes) : mTable[1].scenes[i].location = "H"
  /\ Name_S \notin RosterOf(mTable[1])

\* the table of the sequential page covers the names its scenes list
C30_SequentialCoverage ==
  (merger = "sequential" /\ mPc = "returned") =>
    \A i \in 1..Len(mTable[1].scenes) :
      \A raw \in ListedInRow(i) :
        /\ raw \in RosterOf(mTable[1])
        /\ mTable[1].scenes[i].characters[raw] = "true"

(***************************************************************************)
(* Properties of the normalizers.                                          *)
(***************************************************************************)
HasNightKeyword(s) == \E keyword \in NightKeywords : Includes(s, keyword)

HasDayKeyword(s) == \E keyword \in DayKeywords : Includes(s, keyword)

\* C19: determineDN returns 'N' for a text with a night keyword, with or
\* without a day keyword; 'D' for a text with a day keyword and no night
\* keyword; the empty string for a text with neither; and nothing else.
C19_DetermineDN ==
  (nFunction = "determineDN" /\ nPc = "returned") =>
    /\ HasNightKeyword(nText) => nResult = <<"N">>
    /\ (HasDayKeyword(nText) /\ ~HasNightKeyword(nText)) => nResult = <<"D">>
    /\ (~HasDayKeyword(nText) /\ ~HasNightKeyword(nText)) => nResult = <<>>
    /\ nResult \in {<<"N">>, <<"D">>, <<>>}

\* the case of C19: a text with a day keyword and then a night keyword
C19_Witness ==
  /\ nFunction = "determineDN"
  /\ nPc = "returned"
  /\ nText = <<"g", "z", "n">>
  /\ nResult = <<"N">>

\* C20: truncateContent returns a content longer than the cap as its first
\* cap characters followed by the ellipsis, and a content of at most cap
\* characters unchanged.
C20_TruncateContent ==
  (nFunction = "truncateContent" /\ nPc = "returned") =>
    IF Len(nText) > nMaxLength
    THEN /\ Len(nResult) = nMaxLength + Len(Ellipsis)
         /\ SubSeq(nResult, 1, nMaxLength) = SubSeq(nText, 1, nMaxLength)
         /\ SubSeq(nResult, nMaxLength + 1, Len(nResult)) = Ellipsis
    ELSE nResult = nText

\* the case of C20: a content of exactly cap characters, returned as it is
C20_Witness ==
  /\ nFunction = "truncateContent"
  /\ nPc = "returned"
  /\ nMaxLength > 0
  /\ Len(nText) = nMaxLength
  /\ nResult = nText

====
